---- MODULE Spec2Model ----
(***************************************************************************)
(* Model of the tool-augmented turn orchestrator of McpTesting:            *)
(*   process_prompt        (src/src/logic/chat_loop/chat_processor.py)     *)
(*   get_available_tools, call_gemini_api_and_validate, process_candidate  *)
(*                         (src/src/logic/chat_loop/chat_helpers.py)       *)
(*   find_server_for_tool, handle_function_call                            *)
(*                         (src/src/logic/tool_handler.py)                 *)
(*   MCPServer.list_tools, format_tools_for_gemini, call_tool              *)
(*                         (src/src/logic/mcp/mcp_server.py)               *)
(*   clean_schema_for_gemini                                               *)
(*                         (src/src/logic/mcp/mcp_server.py)               *)
(* One turn runs as a sequential task; the list_tools coroutines of its    *)
(* discovery complete in any order; a list_tools call of another turn may  *)
(* write an adapter's shared cache at any moment (specification Spec).     *)
(* SpecSolo is a turn running alone, SpecHang a turn whose tool servers    *)
(* may stop answering, SpecCallback a turn called with any callback;       *)
(* SpecNormalizer and SpecFormat run clean_schema_for_gemini and           *)
(* format_tools_for_gemini on bounded inputs; SpecSerialize runs           *)
(* serialize_history and the cache update of process_chat_task             *)
(*                         (src/src/logic/core/socketio_handlers.py);      *)
(* SpecPayload runs the payload extraction of handle_function_call on      *)
(* bounded tool results; SpecSession runs process_user_message and the     *)
(* background tasks (process_chat_task) of the messages of one session.    *)
(* Texts are sequences of string tokens, so concatenation is \o.           *)
(***************************************************************************)
EXTENDS Integers, Sequences, FiniteSets, TLC

VARIABLES
    gemini_client,          \* TRUE iff the module-level client is initialized
    mcp_servers,            \* the adapter dict, as the sequence of its keys in iteration order
    prompt_ok,              \* FALSE iff building the user Part from the prompt raises
    internal_step_callback, \* the callback argument of process_prompt
    last_known_tools,       \* MCPServer.last_known_tools, per server id (shared by all turns)
    gemini_history,         \* the caller's input history
    current_turn_history,   \* the working copy of process_prompt
    all_mcp_tools,          \* the declarations collected by get_available_tools
    function_call_count,    \* the loop counter of process_prompt
    response,               \* the `response` local of process_prompt
    function_call_requested,\* the function call process_candidate honours
    target_server,          \* the server handle_function_call resolved
    pc,                     \* position of the turn
    result,                 \* what process_prompt returned: [text, history]
    list_state,             \* per server: position of this turn's list_tools coroutine
    tool_results,           \* per server: what list_tools returned to gather
    merge_index,            \* loop index of the merge loop of get_available_tools
    tool_result,            \* the `tool_result` local of handle_function_call
    call_failure,           \* the step of the awaited call_tool that raised, if any
    other_turn,             \* "pending" until a concurrent turn's list_tools call has completed
    \* state of an adapter-level function run on its own
    schema,                 \* the argument of clean_schema_for_gemini
    cleaned_schema,         \* what clean_schema_for_gemini returned for it
    recleaned_schema,       \* what clean_schema_for_gemini returned for cleaned_schema
    gemini_tools,           \* what format_tools_for_gemini returned
    adapter_pc,             \* position of the adapter-level run
    function_response_part, \* what handle_function_call built, run on a result of its own
    \* state of the persistence of a turn's history (process_chat_task)
    updated_gemini_history, \* the history process_chat_task hands to serialize_history
    item_index,             \* the loop index i of serialize_history
    serialized_history,     \* its accumulator
    serialization_error_occurred, \* its flag
    history_cache,          \* the cache entry of the session
    final_response_text,    \* the text process_chat_task got from process_prompt
    save_pc,                \* position of the persistence run
    chat_task,              \* per user message of the session: its handler's outcome and
                            \* the locals of its background task (process_chat_task)
    \* history variables (observations, never read by the program)
    initial_gemini_history, \* the entries of the list object the caller passed, as it is now
    generated,              \* entries created by the turn, in creation order
    requests,               \* one record per generate_content call: [history, tools]
    responses,              \* what the backend answered to each request
    dispatch_log,           \* one record per find_server_for_tool resolution
    tool_calls,             \* one record per call_tool return
    list_ok,                \* per server: this turn's list_tools succeeded
    gather_order            \* the servers whose list_tools coroutine has completed, in order
                            \* of completion, while the results of the gather are pending

vars == << gemini_client, mcp_servers, prompt_ok, internal_step_callback, last_known_tools, gemini_history,
           current_turn_history, all_mcp_tools, function_call_count, response,
           function_call_requested, target_server, pc, result, list_state,
           tool_results, merge_index, tool_result, call_failure, other_turn, schema,
           cleaned_schema, recleaned_schema, gemini_tools, adapter_pc,
           function_response_part, updated_gemini_history,
           item_index, serialized_history, serialization_error_occurred,
           history_cache, final_response_text, save_pc, chat_task,
           initial_gemini_history,
           generated, requests,
           responses, dispatch_log, tool_calls, list_ok, gather_order >>

(***************************************************************************)
(* Bounds and program constants                                            *)
(***************************************************************************)
\* the iteration ceiling K the model is checked with
K == 2

MAX_FUNCTION_CALLS_PER_TURN == K

ServerIds == {"s1", "s2"}

NoServer == "None"

(***************************************************************************)
(* Data: parts, entries, tool descriptors, tool results                    *)
(***************************************************************************)
NoText == [some |-> FALSE, val |-> <<>>]

SomeText(t) == [some |-> TRUE, val |-> t]

\* Python truthiness of an Optional[str]
Truthy(t) == t.some /\ t.val # <<>>

NoFunctionResponse == [key |-> "", value |-> <<>>]

TextPart(t) ==
    [kind |-> "text", text |-> t, name |-> "", args |-> "", response |-> NoFunctionResponse]

FunctionCallPart(n, a) ==
    [kind |-> "function_call", text |-> <<>>, name |-> n, args |-> a,
     response |-> NoFunctionResponse]

FunctionResponsePart(n, r) ==
    [kind |-> "function_response", text |-> <<>>, name |-> n, args |-> "", response |-> r]

NoFunctionCall == FunctionCallPart("", "")

Content(role, parts) == [role |-> role, parts |-> parts]

UserPrompt == <<"list files in /tmp">>

UserEntry == Content("user", <<TextPart(UserPrompt)>>)

Tool(n, ok) == [name |-> n, schema_ok |-> ok]

\* the catalog a tool server answers a successful list request with
LiveCatalog(s) ==
    IF s = "s1" THEN << Tool("t1", TRUE) >>
    ELSE << Tool("t1", TRUE), Tool("t2", TRUE), Tool("t3", FALSE) >>

\* the tool names of all catalogs
CatalogNames ==
    UNION { { LiveCatalog(s)[i].name : i \in 1..Len(LiveCatalog(s)) } : s \in ServerIds }


\* variant: the first descriptor that fails ends the batch
RECURSIVE format_tools_for_gemini_AbortsOnFailure(_)
format_tools_for_gemini_AbortsOnFailure(cache) ==
    IF cache = <<>> \/ ~Head(cache).schema_ok THEN <<>>
    ELSE << [name |-> Head(cache).name] >>
         \o format_tools_for_gemini_AbortsOnFailure(Tail(cache))

\* MCPServer.format_tools_for_gemini: one declaration per cached descriptor, in
\* cache order; a descriptor whose declaration cannot be built is skipped
RECURSIVE format_tools_for_gemini(_)
format_tools_for_gemini(cache) ==
    IF cache = <<>> THEN <<>>
    ELSE (IF Head(cache).schema_ok THEN << [name |-> Head(cache).name] >> ELSE <<>>)
         \o format_tools_for_gemini(Tail(cache))

\* call_tool's distinguished failure value
None == [kind |-> "None", content_is_list |-> FALSE, content |-> <<>>, id |-> "None"]

ToolResult(id, isList, content) ==
    [kind |-> "result", content_is_list |-> isList, content |-> content, id |-> id]

ContentElement(id, text) == [id |-> id, text |-> text]

TextResult == ToolResult("r_text", TRUE, << ContentElement("c_text", SomeText(<<"a.txt b.txt">>)) >>)

EmptyContentResult == ToolResult("r_empty", TRUE, <<>>)

\* what a tool server answers a tool invocation with
ServerResults == { TextResult, EmptyContentResult }

\* the awaited steps of call_tool that can raise
CallFailures == { "connect", "initialize", "call_tool", "disconnect" }

NoFailure == "none"

\* the result call_tool would return if the failure while disconnecting escaped
Raised == [kind |-> "raise", content_is_list |-> FALSE, content |-> <<>>, id |-> "raise"]

\* variant: no except clause covers the exit of the connection
call_tool_ExitUnguarded(failure, res) ==
    IF failure = "disconnect" THEN Raised
    ELSE IF failure # NoFailure THEN None ELSE res

\* MCPServer.call_tool: the server's result, or None when any step raised
call_tool(failure, res) == IF failure # NoFailure THEN None ELSE res

\* what call_tool can return to a turn
CallToolOutcomes ==
    { call_tool(f, res) : f \in CallFailures \cup {NoFailure}, res \in ServerResults }

\* str(x) of an object, as a text
Str(id) == << "str", id >>

(***************************************************************************)
(* JSON values and clean_schema_for_gemini                                 *)
(***************************************************************************)
\* a JSON value: None, a string, a dict (a function from its keys) or a list
Absent == [t |-> "None", s |-> "", d |-> <<>>, l |-> <<>>]

JStr(x) == [t |-> "str", s |-> x, d |-> <<>>, l |-> <<>>]

JDict(f) == [t |-> "dict", s |-> "", d |-> f, l |-> <<>>]

JList(q) == [t |-> "list", s |-> "", d |-> <<>>, l |-> q]

\* line 45
DisallowedKeys == {"additionalProperties", "$schema", "title"}

\* lines 45-60: the entries of a schema dict that are skipped
SkipKey(key, value) ==
    \/ key \in DisallowedKeys /\ key \notin {"properties", "items"}
    \/ value = Absent
    \/ key = "type" /\ value = JStr("null")

\* variant: the entries of a properties map are filtered by name like schema keys
KeepProperty_DropsDisallowedNames(prop_key, v) == v # Absent /\ prop_key \notin DisallowedKeys

\* lines 69-71: the properties kept after cleaning
KeepProperty(prop_key, v) == v # Absent

\* variant: a cleaned nested dict is stored whatever it is
KeepNested_Always(v) == TRUE

\* lines 77-84: `if cleaned_item_schema:` / `if cleaned_value:`
KeepNested(v) == v # Absent /\ v # JDict(<<>>)

\* lines 91-93: `if cleaned_list:`
KeepList(q) == q # <<>>

\* line 91: `item is not None`
NotNone(x) == x # Absent

\* variant: no type is inferred
InferType_Never(schema_d, cleaned) == cleaned

\* lines 99-104: type OBJECT is set when properties are left without a type, or
\* when the schema said OBJECT and no type is left
InferType(schema_d, cleaned) ==
    IF "properties" \in DOMAIN cleaned /\ "type" \notin DOMAIN cleaned
    THEN cleaned @@ ("type" :> JStr("OBJECT"))
    ELSE IF /\ "type" \in DOMAIN schema_d
            /\ schema_d["type"] = JStr("OBJECT")
            /\ "type" \notin DOMAIN cleaned
    THEN cleaned @@ ("type" :> JStr("OBJECT"))
    ELSE cleaned

\* clean_schema_for_gemini, lines 35-107
RECURSIVE clean_schema_for_gemini(_)
clean_schema_for_gemini(sch) ==
    IF sch.t # "dict" THEN sch
    ELSE
      LET CleanedValue(key) ==
              LET value == sch.d[key]
              IN  IF key = "properties" /\ value.t = "dict"
                  THEN LET cp   == [pk \in DOMAIN value.d |->
                                       clean_schema_for_gemini(value.d[pk])]
                           kept == { pk \in DOMAIN value.d : KeepProperty(pk, cp[pk]) }
                       IN  JDict([pk \in kept |-> cp[pk]])
                  ELSE IF value.t = "dict" THEN clean_schema_for_gemini(value)
                  ELSE IF value.t = "list"
                  THEN JList(SelectSeq(
                          [i \in 1..Len(value.l) |->
                              IF value.l[i].t = "dict"
                              THEN clean_schema_for_gemini(value.l[i])
                              ELSE value.l[i]],
                          NotNone))
                  ELSE value
          Kept(key) ==
              LET value == sch.d[key]
                  cv    == CleanedValue(key)
              IN  /\ ~SkipKey(key, value)
                  /\ IF key = "properties" /\ value.t = "dict" THEN DOMAIN cv.d # {}
                     ELSE IF value.t = "dict" THEN KeepNested(cv)
                     ELSE IF value.t = "list" THEN KeepList(cv.l)
                     ELSE TRUE
          cleaned == [key \in { k \in DOMAIN sch.d : Kept(k) } |-> CleanedValue(key)]
          typed   == InferType(sch.d, cleaned)
      IN  IF DOMAIN typed = {} THEN Absent ELSE JDict(typed)

(***************************************************************************)
(* Model-backend responses                                                 *)
(***************************************************************************)
Response(kind, salvage, hasContent, parts) ==
    [kind |-> kind, salvage |-> salvage, has_content |-> hasContent, parts |-> parts]

\* the value of `response` when the helper returned no response object
NoResponse == Response("None", NoText, FALSE, <<>>)

Candidate(parts) == Response("candidate", NoText, TRUE, parts)

Hello == <<"hello">>

\* what generate_content can do on one request
Responses ==
    { Response("raise", NoText, FALSE, <<>>),           \* the request raises
      Response("no_candidates", NoText, FALSE, <<>>),   \* no candidate, no text
      Response("no_candidates", SomeText(Hello), FALSE, <<>>),
      Response("candidate", NoText, FALSE, <<>>),       \* candidate without content
      Candidate(<<>>),                                  \* content without parts
      Candidate(<< TextPart(Hello) >>),
      Candidate(<< TextPart(<<>>) >>),                  \* the empty string
      Candidate(<< FunctionCallPart("t1", "dict") >>),
      Candidate(<< FunctionCallPart("t2", "dict") >>),
      Candidate(<< FunctionCallPart("tx", "dict") >>),  \* a name of no catalog
      Candidate(<< FunctionCallPart("t1", "None") >>),  \* function call without args
      Candidate(<< FunctionCallPart("tx", "None") >>),
      Candidate(<< TextPart(Hello), FunctionCallPart("t1", "dict") >>),
      Candidate(<< FunctionCallPart("t2", "dict"), FunctionCallPart("t1", "dict") >>),
      Candidate(<< FunctionCallPart("t2", "None"), FunctionCallPart("t1", "dict") >>) }

RECURSIVE ConcatText(_)
ConcatText(parts) ==
    IF parts = <<>> THEN <<>>
    ELSE (IF Head(parts).kind = "text" THEN Head(parts).text ELSE <<>>)
         \o ConcatText(Tail(parts))

\* GenerateContentResponse.text: the text parts of the first candidate joined,
\* None when it has none; for a response without candidates, what the backend
\* object reports
ResponseText(r) ==
    IF r.kind = "no_candidates" THEN r.salvage
    ELSE IF r.kind # "candidate" \/ ~r.has_content \/ r.parts = <<>> THEN NoText
    ELSE IF \E i \in 1..Len(r.parts) : r.parts[i].kind = "text"
         THEN SomeText(ConcatText(r.parts))
         ELSE NoText

(***************************************************************************)
(* Texts process_prompt returns                                            *)
(***************************************************************************)
NotReadyText == <<"Error: Chat processor not ready.">>

PreparingErrorText == <<"Error preparing request.">>

ServerErrorText == <<"An unexpected server error occurred: ", "e">>

NoCandidatesText == <<"Error: Gemini returned no candidates.">>

LackedContentText == <<"Error: Gemini response lacked content.">>

NoTextWarning == <<"Warning: Gemini finished processing but did not provide a textual response.">>

MaxLimitErrorText == <<"Error: Reached max tool call limit.">>

MaxLimitWarning == <<"\n\n(Warning: Reached maximum tool call limit of ", "MAX_FUNCTION_CALLS_PER_TURN", ")">>


(***************************************************************************)
(* Pure pieces of the handlers                                             *)
(***************************************************************************)
\* variant: the pre-check of the first process_prompt, which also rejects an
\* empty server dict
NotReady_RejectsNoServers(client, servers) == ~client \/ servers = <<>>

\* process_prompt's pre-check: the turn is rejected iff this holds
NotReady(client, servers) == ~client

\* variant: the working copy is the caller's list itself, an append reaches it
CallersList_Aliased(input, working) == working

\* line 92: list(gemini_history) is a new list object; an append to the working
\* copy leaves the caller's list as it is
CallersList(input, working) == input

\* variant: the working copy starts empty instead of copying the input
WorkingCopy_Fresh(h) == <<>>

\* current_turn_history = list(gemini_history)
WorkingCopy(h) == h

\* variant: a raising request is reported like a response without candidates
call_gemini_api_and_validate_NoExcept(r) ==
    IF r.kind \in {"raise", "no_candidates"}
    THEN [response |-> NoResponse,
          error_text |-> SomeText(IF Truthy(ResponseText(r)) THEN ResponseText(r).val
                                  ELSE NoCandidatesText)]
    ELSE [response |-> r, error_text |-> NoText]

\* variant: the response is not validated for candidates
call_gemini_api_and_validate_NoValidation(r) ==
    IF r.kind = "raise"
    THEN [response |-> NoResponse, error_text |-> SomeText(ServerErrorText)]
    ELSE [response |-> r, error_text |-> NoText]

\* call_gemini_api_and_validate: (response, error_text) for what the backend did
call_gemini_api_and_validate(r) ==
    IF r.kind = "raise"
    THEN [response |-> NoResponse, error_text |-> SomeText(ServerErrorText)]
    ELSE IF r.kind = "no_candidates"
    THEN [response |-> NoResponse,
          error_text |-> SomeText(IF Truthy(ResponseText(r)) THEN ResponseText(r).val
                                  ELSE NoCandidatesText)]
    ELSE [response |-> r, error_text |-> NoText]

\* process_prompt line 154: `response and response.text and not response.candidates`
SalvagesText(resp) ==
    /\ resp # NoResponse
    /\ Truthy(ResponseText(resp))
    /\ resp.kind = "no_candidates"

\* process_candidate: the first part carrying a function call, if any
RECURSIVE FirstFunctionCall(_)
FirstFunctionCall(parts) ==
    IF parts = <<>> THEN NoFunctionCall
    ELSE IF Head(parts).kind = "function_call" THEN Head(parts)
    ELSE FirstFunctionCall(Tail(parts))

\* variant: the candidate's content is not appended
AppendCandidateContent_Skipped(h, r) == h

\* variant: the entry is appended only when it asks for no tool
AppendCandidateContent_UnlessFunctionCall(h, r) ==
    IF FirstFunctionCall(r.parts) # NoFunctionCall THEN h
    ELSE Append(h, Content("model", r.parts))

\* process_candidate: current_history.append(candidate.content)
AppendCandidateContent(h, r) == Append(h, Content("model", r.parts))

HasTool(cache, name) == \E i \in 1..Len(cache) : cache[i].name = name

\* variant: the last server, in dict order, whose cached tools hold the name
find_server_for_tool_LastMatch(name, servers, caches) ==
    LET M == { i \in 1..Len(servers) : HasTool(caches[servers[i]], name) }
    IN  IF M = {} THEN NoServer
        ELSE servers[CHOOSE i \in M : \A j \in M : j <= i]

\* find_server_for_tool: the first server, in dict order, whose cached tools hold the name
RECURSIVE find_server_for_tool(_, _, _)
find_server_for_tool(name, servers, caches) ==
    IF servers = <<>> THEN NoServer
    ELSE IF HasTool(caches[Head(servers)], name) THEN Head(servers)
    ELSE find_server_for_tool(name, Tail(servers), caches)

UnknownToolResponse(name) ==
    [key |-> "error", value |-> <<"Tool '", name, "' is not available or configured.">>]

FailedToolResponse(name) ==
    [key |-> "error",
     value |-> <<"Failed to execute tool '", name, "'. Server connection or execution failed.">>]

\* variant: an element without text is not used, the whole result is stringified
ExtractPayload_WholeResultWithoutText(r) ==
    IF r.content_is_list /\ Len(r.content) > 0 /\ r.content[1].text.some
    THEN r.content[1].text.val
    ELSE Str(r.id)

\* handle_function_call lines 164-202: the payload of a successful result
ExtractPayload(r) ==
    IF r.content_is_list /\ Len(r.content) > 0
    THEN (IF r.content[1].text.some THEN r.content[1].text.val ELSE Str(r.content[1].id))
    ELSE Str(r.id)

\* variant: the `tool_result is None` test is missing
ToolResultResponse_NoNoneTest(name, r) ==
    [key |-> "content", value |-> ExtractPayload(r)]

\* handle_function_call lines 148-217: the response for what call_tool returned
ToolResultResponse(name, r) ==
    IF r = None THEN FailedToolResponse(name)
    ELSE [key |-> "content", value |-> ExtractPayload(r)]

\* variant: the tool result is appended as a user entry
FunctionEntry_UserRole(name, fr) == Content("user", << FunctionResponsePart(name, fr) >>)

\* process_candidate lines 179-182
FunctionEntry(name, fr) == Content("function", << FunctionResponsePart(name, fr) >>)

\* candidate.finish_reason of the first candidate
FinishReason(r) == IF r.kind = "candidate" THEN "STOP" ELSE "UNKNOWN"

\* the diagnostic of the first process_prompt (src/chat_processor.py lines 328-330)
NoActionableResponseText(r) ==
    << "Error: Gemini provided no actionable response. Finish: ", FinishReason(r),
       ". Safety: ", "safety_ratings" >>

\* variant: without text, the diagnostic of the first process_prompt is returned
FinalTextOf_ReportsFinishReason(r) ==
    IF Truthy(ResponseText(r)) THEN ResponseText(r).val ELSE NoActionableResponseText(r)

\* process_prompt lines 181-199: the final text when the candidate asked for no tool
FinalTextOf(r) ==
    IF Truthy(ResponseText(r)) THEN ResponseText(r).val ELSE NoTextWarning

\* variant: at the ceiling the warning is appended to the last text, or to nothing
EndOfLoop_AlwaysAppends(count, resp, final) ==
    IF count >= MAX_FUNCTION_CALLS_PER_TURN
    THEN (IF resp # NoResponse /\ Truthy(ResponseText(resp))
          THEN ResponseText(resp).val ELSE <<>>) \o MaxLimitWarning
    ELSE final

\* process_prompt lines 203-221: the text returned, given the text the loop left
EndOfLoop(count, resp, final) ==
    IF count >= MAX_FUNCTION_CALLS_PER_TURN
    THEN (IF resp # NoResponse /\ Truthy(ResponseText(resp))
          THEN ResponseText(resp).val \o MaxLimitWarning
          ELSE MaxLimitErrorText)
    ELSE final

\* variant: a failing list_tools clears the cache but returns what was cached
FailedListing_ReturnsCached(cache) == [cache |-> <<>>, returns |-> cache]

\* variant: a failing list_tools leaves the cache and returns it
FailedListing_KeepsCache(cache) == [cache |-> cache, returns |-> cache]

\* list_tools on a failure: (cache, return value)
FailedListing(cache) == [cache |-> <<>>, returns |-> <<>>]

\* variant: the received catalog is added to the cached one
ReplaceCache_Extends(cache, tools) == cache \o tools

\* list_tools line 150: self.last_known_tools = response.tools
ReplaceCache(cache, tools) == tools

\* get_available_tools lines 52-55: what a server adds to the combined list
MergeContribution(listed, cache) ==
    IF listed # <<>> THEN format_tools_for_gemini(cache) ELSE <<>>

InServers(s) == \E i \in 1..Len(mcp_servers) : mcp_servers[i] = s

NoResult == [text |-> <<>>, history |-> <<>>]

\* internal_step_callback=None
NoCallback == "None"

\* the callbacks a caller can pass: none, one that returns, one that raises
Callbacks == { NoCallback, "returns", "raises" }

\* `if internal_step_callback: internal_step_callback(msg)` raises
CallbackRaises(callback) == callback = "raises"

(***************************************************************************)
(* Initial states                                                          *)
(***************************************************************************)
History0 == << Content("user", << TextPart(<<"hi">>) >>),
               Content("model", << TextPart(<<"hello, how can I help?">>) >>) >>

\* caches as earlier turns may have left them
CachesOf(servers) ==
    { c \in [ServerIds -> {<<>>} \cup { LiveCatalog(s) : s \in ServerIds }] :
        \A s \in ServerIds :
            /\ c[s] \in {<<>>, LiveCatalog(s)}
            /\ (\A i \in 1..Len(servers) : servers[i] # s) => c[s] = <<>> }

\* the locals of a turn that has not started, and empty observations
InitLocals ==
    /\ current_turn_history = <<>>
    /\ all_mcp_tools = <<>>
    /\ function_call_count = 0
    /\ response = NoResponse
    /\ function_call_requested = NoFunctionCall
    /\ target_server = NoServer
    /\ pc = "start"
    /\ result = NoResult
    /\ list_state = [s \in ServerIds |-> "idle"]
    /\ tool_results = [s \in ServerIds |-> <<>>]
    /\ merge_index = 1
    /\ tool_result = None
    /\ call_failure = NoFailure
    /\ other_turn = "pending"
    /\ initial_gemini_history = gemini_history
    /\ generated = <<>>
    /\ requests = <<>>
    /\ responses = <<>>
    /\ dispatch_log = <<>>
    /\ tool_calls = <<>>
    /\ list_ok = [s \in ServerIds |-> FALSE]
    /\ gather_order = <<>>

\* no adapter-level function is run on its own
AdapterIdle ==
    /\ schema = Absent
    /\ cleaned_schema = Absent
    /\ recleaned_schema = Absent
    /\ gemini_tools = <<>>
    /\ adapter_pc = "idle"
    /\ function_response_part = NoFunctionResponse

\* the most user messages of one session
MaxMessages == 2

Tasks == 1..MaxMessages

\* a user message that has not arrived: no handler ran, no task was started
NoTask ==
    [pc |-> "pending", initial_gemini_history |-> <<>>, returned |-> FALSE,
     updated_gemini_history |-> <<>>, final_response_text |-> <<>>,
     current_display_history |-> <<>>, handler_events |-> <<>>, events |-> <<>>,
     overlapped |-> {}, saved |-> FALSE]

NoMessages == [t \in Tasks |-> NoTask]

\* the cache entry of a session that saved nothing yet
EmptyCache == [gemini_history_internal |-> <<>>, chat_history_display |-> <<>>]

\* no history is being persisted
SaveIdle ==
    /\ updated_gemini_history = <<>>
    /\ item_index = 1
    /\ serialized_history = <<>>
    /\ serialization_error_occurred = FALSE
    /\ history_cache = EmptyCache
    /\ final_response_text = <<>>
    /\ save_pc = "idle"
    /\ chat_task = NoMessages

\* the other inputs of a turn, and the state around it
TurnInputs ==
    /\ gemini_client \in BOOLEAN
    /\ prompt_ok \in BOOLEAN
    /\ mcp_servers \in { <<>>, <<"s1">>, <<"s1", "s2">> }
    /\ last_known_tools \in CachesOf(mcp_servers)
    /\ gemini_history \in { <<>>, History0 }
    /\ InitLocals
    /\ AdapterIdle
    /\ SaveIdle

\* a turn started without a callback (the default of the parameter)
InitTurn ==
    /\ TurnInputs
    /\ internal_step_callback = NoCallback

\* the state when process_prompt is called
Init == InitTurn

(***************************************************************************)
(* process_prompt                                                          *)
(***************************************************************************)
CallState == << tool_result, call_failure >>

TurnLocals == << all_mcp_tools, function_call_count, response,
                 function_call_requested, target_server, CallState >>

Discovery == << list_state, tool_results, merge_index, list_ok, gather_order >>

AdapterRun == << schema, cleaned_schema, recleaned_schema, gemini_tools, adapter_pc,
                 function_response_part >>

SaveRun == << updated_gemini_history, item_index, serialized_history, serialization_error_occurred,
              history_cache, final_response_text, save_pc, chat_task >>

Config == << gemini_client, mcp_servers, prompt_ok, internal_step_callback, gemini_history,
             other_turn, AdapterRun, SaveRun >>

Logs == << initial_gemini_history, generated, requests, responses, dispatch_log, tool_calls >>

\* `return text, history`
Return(text, history) ==
    /\ result' = [text |-> text, history |-> history]
    /\ pc' = "returned"

\* lines 75-79: the client is missing, the turn is rejected
RejectNotReady ==
    /\ pc = "start"
    /\ NotReady(gemini_client, mcp_servers)
    /\ Return(NotReadyText, gemini_history)
    /\ UNCHANGED << Config, last_known_tools, current_turn_history, TurnLocals,
                    Discovery, Logs >>

\* lines 90-91, 107-110: building the user part raises, the except clause returns
SetupFails ==
    /\ pc = "start"
    /\ ~NotReady(gemini_client, mcp_servers)
    /\ ~(mcp_servers = <<>> /\ CallbackRaises(internal_step_callback))
    /\ ~prompt_ok
    /\ Return(PreparingErrorText, gemini_history)
    /\ UNCHANGED << Config, last_known_tools, current_turn_history, TurnLocals,
                    Discovery, Logs >>

\* lines 81-102 and get_available_tools lines 27-41: the user entry is appended to
\* the working copy; with no server the tool list is empty, otherwise one
\* list_tools coroutine per server is started
BeginTurn ==
    /\ pc = "start"
    /\ ~NotReady(gemini_client, mcp_servers)
    /\ prompt_ok
    /\ ~CallbackRaises(internal_step_callback)
    /\ current_turn_history' = Append(WorkingCopy(gemini_history), UserEntry)
    /\ initial_gemini_history' = CallersList(initial_gemini_history, current_turn_history')
    /\ generated' = << UserEntry >>
    /\ IF mcp_servers = <<>>
       THEN /\ pc' = "loop"
            /\ UNCHANGED list_state
       ELSE /\ pc' = "discover"
            /\ list_state' = [s \in ServerIds |-> IF InServers(s) THEN "running" ELSE "idle"]
    /\ UNCHANGED << Config, last_known_tools, TurnLocals, result, tool_results,
                    merge_index, list_ok, gather_order, requests, responses, dispatch_log,
                    tool_calls >>

(***************************************************************************)
(* MCPServer.list_tools, one coroutine per server of the turn's gather      *)
(***************************************************************************)
ListFrame == << Config, current_turn_history, TurnLocals, pc, result, merge_index, Logs >>

\* lines 148-150: the catalog arrives and replaces the cache
ListToolsReceive(s) ==
    /\ list_state[s] = "running"
    /\ last_known_tools' =
          [last_known_tools EXCEPT ![s] = ReplaceCache(last_known_tools[s], LiveCatalog(s))]
    /\ list_state' = [list_state EXCEPT ![s] = "assigned"]
    /\ UNCHANGED << ListFrame, tool_results, list_ok, gather_order >>

\* line 154: `return self.last_known_tools` reads the cache
ListToolsReturnValue(s) ==
    /\ list_state[s] = "assigned"
    /\ tool_results' = [tool_results EXCEPT ![s] = last_known_tools[s]]
    /\ list_state' = [list_state EXCEPT ![s] = "exiting"]
    /\ UNCHANGED << ListFrame, last_known_tools, list_ok, gather_order >>

\* lines 142-143, 173-178: the connection is closed on the way out; if that raises,
\* the except clause clears the cache and returns []
ListToolsExit(s) ==
    /\ list_state[s] = "exiting"
    /\ \/ /\ list_ok' = [list_ok EXCEPT ![s] = TRUE]
          /\ UNCHANGED << last_known_tools, tool_results >>
       \/ /\ last_known_tools' =
                [last_known_tools EXCEPT ![s] = FailedListing(last_known_tools[s]).cache]
          /\ tool_results' =
                [tool_results EXCEPT ![s] = FailedListing(last_known_tools[s]).returns]
          /\ UNCHANGED list_ok
    /\ list_state' = [list_state EXCEPT ![s] = "done"]
    /\ gather_order' = Append(gather_order, s)
    /\ UNCHANGED ListFrame

\* lines 155-160: the response is empty or invalid
ListToolsEmpty(s) ==
    /\ list_state[s] = "running"
    /\ last_known_tools' = [last_known_tools EXCEPT ![s] = <<>>]
    /\ tool_results' = [tool_results EXCEPT ![s] = <<>>]
    /\ list_state' = [list_state EXCEPT ![s] = "done"]
    /\ gather_order' = Append(gather_order, s)
    /\ UNCHANGED << ListFrame, list_ok >>

\* lines 161-178: connecting, the handshake or the request raises
ListToolsFail(s) ==
    /\ list_state[s] = "running"
    /\ last_known_tools' =
          [last_known_tools EXCEPT ![s] = FailedListing(last_known_tools[s]).cache]
    /\ tool_results' =
          [tool_results EXCEPT ![s] = FailedListing(last_known_tools[s]).returns]
    /\ list_state' = [list_state EXCEPT ![s] = "done"]
    /\ gather_order' = Append(gather_order, s)
    /\ UNCHANGED << ListFrame, list_ok >>

\* a list_tools call of another turn's discovery on the same MCPServer object,
\* completing while this turn runs (what other turns did before this turn started
\* is in the initial caches): it succeeds (lines 148-150) or fails (lines 161-178)
OtherTurnListTools(s) ==
    /\ pc \notin {"start", "returned", "raised"}
    /\ other_turn = "pending"
    /\ InServers(s)
    /\ other_turn' = "done"
    /\ \/ last_known_tools' =
             [last_known_tools EXCEPT ![s] = ReplaceCache(last_known_tools[s], LiveCatalog(s))]
       \/ last_known_tools' =
             [last_known_tools EXCEPT ![s] = FailedListing(last_known_tools[s]).cache]
    /\ UNCHANGED << gemini_client, mcp_servers, prompt_ok, internal_step_callback,
                    gemini_history, AdapterRun, SaveRun, current_turn_history, TurnLocals, pc, result, Discovery, Logs >>

(***************************************************************************)
(* get_available_tools lines 43-74: the merge loop, after gather returned  *)
(***************************************************************************)
\* variant: the results are taken in the order the coroutines completed
MergeOrder_AsCompleted(servers, completed) == completed

\* lines 37-45: gather returns the results in the order of the coroutines, which
\* is the order of the server dict, whatever the order of completion
MergeOrder(servers, completed) == servers

\* variant: the merge starts when the first list_tools coroutine has completed
GatherDone_FirstCompleted == \E s \in ServerIds : InServers(s) /\ list_state[s] = "done"

\* line 41: `await asyncio.gather(...)` returns when every coroutine has completed
GatherDone == \A s \in ServerIds : InServers(s) => list_state[s] = "done"

MergeStep ==
    /\ pc = "discover"
    /\ GatherDone
    /\ LET s == MergeOrder(mcp_servers, gather_order)[merge_index] IN
          all_mcp_tools' =
              all_mcp_tools \o MergeContribution(tool_results[s], last_known_tools[s])
    /\ merge_index' = merge_index + 1
    /\ pc' = IF merge_index = Len(mcp_servers) THEN "loop" ELSE "discover"
    /\ gather_order' = IF merge_index = Len(mcp_servers) THEN <<>> ELSE gather_order
    /\ UNCHANGED << Config, last_known_tools, current_turn_history, function_call_count,
                    response, function_call_requested, target_server, CallState, result,
                    list_state, tool_results, list_ok, Logs >>


(***************************************************************************)
(* The loop of process_prompt                                              *)
(***************************************************************************)
LoopFrame == << Config, last_known_tools, all_mcp_tools, Discovery >>

\* lines 116-200 with call_gemini_api_and_validate and process_candidate up to the
\* call of handle_function_call: one request to the backend, answered by r
CallModel(r) ==
    /\ pc = "loop"
    /\ function_call_count < MAX_FUNCTION_CALLS_PER_TURN
    /\ requests' = Append(requests, [history |-> current_turn_history,
                                     tools |-> all_mcp_tools])
    /\ responses' = Append(responses, r)
    /\ initial_gemini_history' = CallersList(initial_gemini_history, current_turn_history')
    /\ LET got  == call_gemini_api_and_validate(r)
           resp == got.response
           fc   == FirstFunctionCall(resp.parts)
       IN  /\ response' = resp
           /\ IF got.error_text.some
              THEN \* lines 151-160: the error text ends the loop
                   LET entry == Content("model", << TextPart(got.error_text.val) >>)
                       hist  == IF SalvagesText(resp)
                                THEN Append(current_turn_history, entry)
                                ELSE current_turn_history
                   IN  /\ current_turn_history' = hist
                       /\ generated' = IF SalvagesText(resp) THEN Append(generated, entry)
                                       ELSE generated
                       /\ Return(EndOfLoop(function_call_count, resp, got.error_text.val),
                                 hist)
                       /\ UNCHANGED function_call_requested
              ELSE IF ~resp.has_content
              THEN \* process_candidate lines 154-159
                   /\ Return(EndOfLoop(function_call_count, resp, LackedContentText),
                             current_turn_history)
                   /\ UNCHANGED << current_turn_history, generated,
                                   function_call_requested >>
              ELSE /\ current_turn_history' = AppendCandidateContent(current_turn_history, resp)
                   /\ generated' = Append(generated, Content("model", resp.parts))
                   /\ IF fc # NoFunctionCall
                      THEN \* lines 168-175: handle_function_call is entered
                           /\ function_call_requested' = fc
                           /\ pc' = "dispatch"
                           /\ UNCHANGED result
                      ELSE \* lines 186-192 and process_prompt lines 179-200
                           /\ Return(EndOfLoop(function_call_count, resp, FinalTextOf(resp)),
                                     current_turn_history')
                           /\ UNCHANGED function_call_requested
    /\ UNCHANGED << LoopFrame, CallState, function_call_count, target_server, dispatch_log, tool_calls >>

\* handle_function_call line 120: dict(function_call.args) raises TypeError when
\* the call carries no args; nothing between there and the caller of
\* process_prompt catches it
DispatchRaises ==
    /\ pc = "dispatch"
    /\ function_call_requested.args = "None"
    /\ pc' = "raised"
    /\ UNCHANGED << LoopFrame, CallState, current_turn_history, function_call_count, response,
                    function_call_requested, target_server, result, Logs >>

\* handle_function_call lines 124-134, process_candidate lines 179-184, process_prompt
\* lines 177-178: no server caches the name
DispatchUnknown ==
    /\ pc = "dispatch"
    /\ function_call_requested.args # "None"
    /\ LET name  == function_call_requested.name
           entry == FunctionEntry(name, UnknownToolResponse(name))
       IN  /\ find_server_for_tool(name, mcp_servers, last_known_tools) = NoServer
           /\ dispatch_log' = Append(dispatch_log,
                 [name |-> name, server |-> NoServer, iter |-> Len(requests),
                  at |-> Len(current_turn_history) + 1])
           /\ current_turn_history' = Append(current_turn_history, entry)
           /\ initial_gemini_history' =
                 CallersList(initial_gemini_history, current_turn_history')
           /\ generated' = Append(generated, entry)
    /\ function_call_count' = function_call_count + 1
    /\ pc' = "loop"
    /\ UNCHANGED << LoopFrame, CallState, response, function_call_requested, target_server, result,
                    requests, responses, tool_calls >>

\* variant: the tool call is started but not awaited, the loop goes on at once
DispatchKnown_NotAwaited ==
    /\ pc = "dispatch"
    /\ function_call_requested.args # "None"
    /\ LET name == function_call_requested.name
           srv  == find_server_for_tool(name, mcp_servers, last_known_tools)
       IN  /\ srv # NoServer
           /\ target_server' = srv
           /\ dispatch_log' = Append(dispatch_log,
                 [name |-> name, server |-> srv, iter |-> Len(requests),
                  at |-> Len(current_turn_history) + 1])
    /\ function_call_count' = function_call_count + 1
    /\ pc' = "loop"
    /\ UNCHANGED << LoopFrame, CallState, current_turn_history, response,
                    function_call_requested, result, initial_gemini_history, generated,
                    requests, responses, tool_calls >>

\* handle_function_call lines 124, 135-143: a server caches the name, call_tool is awaited
DispatchKnown ==
    /\ pc = "dispatch"
    /\ function_call_requested.args # "None"
    /\ LET name == function_call_requested.name
           srv  == find_server_for_tool(name, mcp_servers, last_known_tools)
       IN  /\ srv # NoServer
           /\ target_server' = srv
           /\ dispatch_log' = Append(dispatch_log,
                 [name |-> name, server |-> srv, iter |-> Len(requests),
                  at |-> Len(current_turn_history) + 1])
    /\ pc' = "call_tool"
    /\ UNCHANGED << LoopFrame, CallState, current_turn_history, function_call_count, response,
                    function_call_requested, result, initial_gemini_history, generated,
                    requests, responses, tool_calls >>

\* MCPServer.call_tool returns to handle_function_call line 141: the server
\* answers res unless the step `failure` of the call raises
CallToolReturns(failure, res) ==
    /\ pc = "call_tool"
    /\ tool_result' = call_tool(failure, res)
    /\ call_failure' = failure
    /\ pc' = "tool_returned"
    /\ UNCHANGED << LoopFrame, current_turn_history, function_call_count, response,
                    function_call_requested, target_server, result, Logs >>

\* variant: the function response is built and counted but not appended to the
\* working history
HandleToolResult_NotAppended ==
    /\ pc = "tool_returned"
    /\ LET name == function_call_requested.name
       IN  tool_calls' = Append(tool_calls,
                 [name |-> name, server |-> target_server, result |-> tool_result,
                  iter |-> Len(requests), at |-> Len(current_turn_history) + 1])
    /\ function_call_count' = function_call_count + 1
    /\ tool_result' = None
    /\ call_failure' = NoFailure
    /\ pc' = "loop"
    /\ UNCHANGED << LoopFrame, current_turn_history, initial_gemini_history, generated,
                    response, function_call_requested, target_server, result,
                    requests, responses, dispatch_log >>

\* handle_function_call lines 148-232, process_candidate lines 179-184,
\* process_prompt lines 177-178: the tool-result entry is appended
HandleToolResult ==
    /\ pc = "tool_returned"
    /\ LET name  == function_call_requested.name
           entry == FunctionEntry(name, ToolResultResponse(name, tool_result))
       IN  /\ current_turn_history' = Append(current_turn_history, entry)
           /\ initial_gemini_history' =
                 CallersList(initial_gemini_history, current_turn_history')
           /\ generated' = Append(generated, entry)
           /\ tool_calls' = Append(tool_calls,
                 [name |-> name, server |-> target_server, result |-> tool_result,
                  iter |-> Len(requests), at |-> Len(current_turn_history) + 1])
    /\ function_call_count' = function_call_count + 1
    /\ tool_result' = None
    /\ call_failure' = NoFailure
    /\ pc' = "loop"
    /\ UNCHANGED << LoopFrame, response, function_call_requested, target_server, result,
                    requests, responses, dispatch_log >>

\* lines 116, 203-224: the loop condition fails, the ceiling text is returned
ReachCeiling ==
    /\ pc = "loop"
    /\ function_call_count >= MAX_FUNCTION_CALLS_PER_TURN
    /\ Return(EndOfLoop(function_call_count, response, <<>>), current_turn_history)
    /\ UNCHANGED << LoopFrame, CallState, current_turn_history, function_call_count, response,
                    function_call_requested, target_server, Logs >>

(***************************************************************************)
(* Specifications                                                          *)
(***************************************************************************)
NextSolo ==
    \/ RejectNotReady
    \/ SetupFails
    \/ BeginTurn
    \/ \E s \in ServerIds : ListToolsReceive(s)
    \/ \E s \in ServerIds : ListToolsReturnValue(s)
    \/ \E s \in ServerIds : ListToolsExit(s)
    \/ \E s \in ServerIds : ListToolsEmpty(s)
    \/ \E s \in ServerIds : ListToolsFail(s)
    \/ MergeStep
    \/ \E r \in Responses : CallModel(r)
    \/ DispatchRaises
    \/ DispatchUnknown
    \/ DispatchKnown
    \/ \E f \in CallFailures \cup {NoFailure}, res \in ServerResults : CallToolReturns(f, res)
    \/ HandleToolResult
    \/ ReachCeiling

Next ==
    \/ NextSolo
    \/ \E s \in ServerIds : OtherTurnListTools(s)

\* a turn, with a list_tools call of another turn completing at any moment of it
Spec == Init /\ [][Next]_vars

\* a turn running alone
SpecSolo == Init /\ [][NextSolo]_vars

(***************************************************************************)
(* Tool servers that stop answering                                        *)
(***************************************************************************)
\* list_tools lines 142-148: the server process never answers the handshake or
\* the list request; the awaits carry no timeout, so the coroutine never resumes
ListToolsHangs(s) ==
    /\ list_state[s] = "running"
    /\ list_state' = [list_state EXCEPT ![s] = "hung"]
    /\ UNCHANGED << ListFrame, last_known_tools, tool_results, list_ok, gather_order >>

\* call_tool lines 235-241, awaited at handle_function_call line 143: the server
\* never answers; no timeout ends the await
CallToolHangs ==
    /\ pc = "call_tool"
    /\ pc' = "hung"
    /\ UNCHANGED << LoopFrame, CallState, current_turn_history, function_call_count,
                    response, function_call_requested, target_server, result, Logs >>

NextHang ==
    \/ NextSolo
    \/ \E s \in ServerIds : ListToolsHangs(s)
    \/ CallToolHangs

\* a turn whose tool servers may stop answering; the event loop runs every
\* coroutine that can take a step
SpecHang == Init /\ [][NextHang]_vars /\ WF_vars(NextHang)


(***************************************************************************)
(* A turn called with any callback                                         *)
(***************************************************************************)
\* lines 81-87: the server dict is empty and the warning is handed to the
\* callback, outside any try: what the callback raises leaves process_prompt
CallbackRaisesAtWarning ==
    /\ pc = "start"
    /\ ~NotReady(gemini_client, mcp_servers)
    /\ mcp_servers = <<>>
    /\ CallbackRaises(internal_step_callback)
    /\ pc' = "raised"
    /\ UNCHANGED << Config, last_known_tools, current_turn_history, TurnLocals, result,
                    Discovery, Logs >>

\* lines 90-97, 107-110: the user entry is appended to the working copy, the
\* first progress message is handed to the callback inside the try, and the
\* except clause returns the input history
CallbackRaisesInSetup ==
    /\ pc = "start"
    /\ ~NotReady(gemini_client, mcp_servers)
    /\ mcp_servers # <<>>
    /\ prompt_ok
    /\ CallbackRaises(internal_step_callback)
    /\ current_turn_history' = Append(WorkingCopy(gemini_history), UserEntry)
    /\ initial_gemini_history' = CallersList(initial_gemini_history, current_turn_history')
    /\ generated' = << UserEntry >>
    /\ Return(PreparingErrorText, gemini_history)
    /\ UNCHANGED << Config, last_known_tools, TurnLocals, Discovery, requests, responses,
                    dispatch_log, tool_calls >>

InitCallback ==
    /\ TurnInputs
    /\ internal_step_callback \in Callbacks

NextCallback ==
    \/ NextSolo
    \/ CallbackRaisesAtWarning
    \/ CallbackRaisesInSetup

\* a turn running alone, called with any of the callbacks
SpecCallback == InitCallback /\ [][NextCallback]_vars

(***************************************************************************)
(* Adapter-level functions run on their own                                *)
(***************************************************************************)
\* the keys of the schemas, below the top level and at it
InnerKeys == {"type", "properties", "items", "title", "enum"}

TopKeys == InnerKeys \cup {"additionalProperties", "$schema"}

Scalars == { Absent, JStr("null"), JStr("OBJECT"), JStr("string") }

TypeValues == { JStr("null"), JStr("OBJECT"), JStr("string") }

\* the dicts of one key
OneKey(keys, V) == { k :> v : k \in keys, v \in V }

\* the dicts of D without a type, with one added
WithType(D) ==
    { d @@ ("type" :> t) : d \in { x \in D : "type" \notin DOMAIN x }, t \in TypeValues }

Dicts(keys, V) == OneKey(keys, V) \cup WithType(OneKey(keys, V))

ScalarDicts == {<<>>} \cup Dicts(InnerKeys, Scalars)

ListItems ==
    { Absent, JStr("string"), JDict("type" :> JStr("null")), JDict("type" :> JStr("string")) }

ScalarLists ==
    {<<>>} \cup { <<v>> : v \in Scalars \cup { JDict(d) : d \in OneKey(InnerKeys, Scalars) } }
           \cup { <<v, w>> : v \in ListItems, w \in ListItems }

\* values nested one level
Values1 == Scalars \cup { JDict(d) : d \in ScalarDicts } \cup { JList(q) : q \in ScalarLists }

\* values nested two levels, lists of lists among them
Values2 ==
    Values1 \cup { JDict(d) : d \in Dicts(InnerKeys, Values1) }
            \cup { JList(<<JList(q)>>) : q \in ScalarLists }

\* the input schemas: None, the empty dict, and dicts of one key (and a type)
\* over values nested two levels
Schemas == {Absent} \cup { JDict(d) : d \in {<<>>} \cup Dicts(TopKeys, Values2) }

\* the longest cached catalog format_tools_for_gemini is run on
MaxCatalog == 3

ToolDescriptors == { Tool("t1", TRUE), Tool("t2", TRUE), Tool("t3", FALSE), Tool("t4", FALSE) }

ToolCaches == UNION { [1..n -> ToolDescriptors] : n \in 0..MaxCatalog }

\* no turn runs
NoTurn ==
    /\ gemini_client = FALSE
    /\ prompt_ok = FALSE
    /\ internal_step_callback = NoCallback
    /\ mcp_servers = << "s1" >>
    /\ gemini_history = <<>>
    /\ InitLocals

InitNormalizer ==
    /\ NoTurn
    /\ last_known_tools = [s \in ServerIds |-> <<>>]
    /\ schema \in Schemas
    /\ cleaned_schema = Absent
    /\ recleaned_schema = Absent
    /\ gemini_tools = <<>>
    /\ adapter_pc = "schema"
    /\ function_response_part = NoFunctionResponse
    /\ SaveIdle

AdapterFrame ==
    << gemini_client, mcp_servers, prompt_ok, internal_step_callback, gemini_history,
       other_turn, last_known_tools,
       current_turn_history, TurnLocals, pc, result, Discovery, Logs, SaveRun,
       function_response_part >>

\* clean_schema_for_gemini(schema)
NormalizeSchema ==
    /\ adapter_pc = "schema"
    /\ cleaned_schema' = clean_schema_for_gemini(schema)
    /\ adapter_pc' = "cleaned"
    /\ UNCHANGED << AdapterFrame, schema, recleaned_schema, gemini_tools >>

\* clean_schema_for_gemini applied to its own result
NormalizeAgain ==
    /\ adapter_pc = "cleaned"
    /\ recleaned_schema' = clean_schema_for_gemini(cleaned_schema)
    /\ adapter_pc' = "recleaned"
    /\ UNCHANGED << AdapterFrame, schema, cleaned_schema, gemini_tools >>

NextNormalizer == NormalizeSchema \/ NormalizeAgain

\* the schema normalizer applied to each schema of Schemas
SpecNormalizer == InitNormalizer /\ [][NextNormalizer]_vars

InitFormat ==
    /\ NoTurn
    /\ \E cache \in ToolCaches :
          last_known_tools = [s \in ServerIds |-> IF s = "s1" THEN cache ELSE <<>>]
    /\ schema = Absent
    /\ cleaned_schema = Absent
    /\ recleaned_schema = Absent
    /\ gemini_tools = <<>>
    /\ adapter_pc = "tools"
    /\ function_response_part = NoFunctionResponse
    /\ SaveIdle

\* adapter s1's format_tools_for_gemini()
FormatTools ==
    /\ adapter_pc = "tools"
    /\ gemini_tools' = format_tools_for_gemini(last_known_tools["s1"])
    /\ adapter_pc' = "formatted"
    /\ UNCHANGED << AdapterFrame, schema, cleaned_schema, recleaned_schema >>

NextFormat == FormatTools

\* format_tools_for_gemini applied to each cache of ToolCaches
SpecFormat == InitFormat /\ [][NextFormat]_vars


\* the longest content list of a tool result
MaxContent == 2

\* content elements: with a text, with the empty text, without a text
ContentElements ==
    { ContentElement("c_text", SomeText(<<"a.txt b.txt">>)),
      ContentElement("c_other", SomeText(<<"42">>)),
      ContentElement("c_blank", SomeText(<<>>)),
      ContentElement("c_image", NoText) }

\* what call_tool can hand to handle_function_call on success: results whose
\* content is a list of up to MaxContent elements, and results whose content is
\* missing or of another type (content_is_list FALSE, whatever it holds)
ResultShapes ==
    { ToolResult(id, isList, content) :
        id \in {"r_1", "r_2"}, isList \in BOOLEAN,
        content \in UNION { [1..n -> ContentElements] : n \in 0..MaxContent } }

\* handle_function_call at line 148: call_tool returned tool_result for the
\* function call of tool_name
InitPayload ==
    /\ gemini_client = TRUE
    /\ prompt_ok = TRUE
    /\ internal_step_callback = NoCallback
    /\ mcp_servers = << "s1" >>
    /\ gemini_history = <<>>
    /\ last_known_tools = [s \in ServerIds |-> IF s = "s1" THEN LiveCatalog(s) ELSE <<>>]
    /\ current_turn_history = <<>>
    /\ all_mcp_tools = <<>>
    /\ function_call_count = 0
    /\ response = NoResponse
    /\ function_call_requested \in { FunctionCallPart(n, "dict") : n \in {"t1", "t2"} }
    /\ target_server = "s1"
    /\ pc = "start"
    /\ result = NoResult
    /\ list_state = [s \in ServerIds |-> "idle"]
    /\ tool_results = [s \in ServerIds |-> <<>>]
    /\ merge_index = 1
    /\ tool_result \in ResultShapes \cup {None}
    /\ call_failure = NoFailure
    /\ other_turn = "pending"
    /\ initial_gemini_history = gemini_history
    /\ generated = <<>>
    /\ requests = <<>>
    /\ responses = <<>>
    /\ dispatch_log = <<>>
    /\ tool_calls = <<>>
    /\ list_ok = [s \in ServerIds |-> FALSE]
    /\ gather_order = <<>>
    /\ schema = Absent
    /\ cleaned_schema = Absent
    /\ recleaned_schema = Absent
    /\ gemini_tools = <<>>
    /\ adapter_pc = "tool_result"
    /\ function_response_part = NoFunctionResponse
    /\ SaveIdle

\* handle_function_call lines 148-232: the function response for tool_result
BuildFunctionResponse ==
    /\ adapter_pc = "tool_result"
    /\ function_response_part' =
          ToolResultResponse(function_call_requested.name, tool_result)
    /\ adapter_pc' = "function_response"
    /\ UNCHANGED << gemini_client, mcp_servers, prompt_ok, internal_step_callback,
                    gemini_history, other_turn, last_known_tools, current_turn_history,
                    TurnLocals, pc, result, Discovery, Logs, SaveRun, schema,
                    cleaned_schema, recleaned_schema, gemini_tools >>

NextPayload == BuildFunctionResponse

\* handle_function_call's treatment of each result of ResultShapes, and of None
SpecPayload == InitPayload /\ [][NextPayload]_vars

(***************************************************************************)
(* Persistence of a turn's history: serialize_history and the cache update *)
(* of process_chat_task                                                    *)
(***************************************************************************)
\* the longest history serialize_history is run on
MaxHistory == 3

\* a history entry, with whether its model_dump(mode="json") succeeds
HistoryItem(c, ok) == [content |-> c, dumpable |-> ok]

\* Part.model_dump: a dict of the part's fields, the unset ones None
DumpPart(p) ==
    [text |-> IF p.kind = "text" THEN SomeText(p.text) ELSE NoText,
     function_call |-> IF p.kind = "function_call"
                       THEN [name |-> p.name, args |-> p.args] ELSE NoFunctionCall,
     function_response |-> IF p.kind = "function_response"
                           THEN [name |-> p.name, response |-> p.response]
                           ELSE NoFunctionResponse]

\* Content.model_dump(mode="json"): the dict of an entry
model_dump(c) ==
    [role |-> JStr(c.role), parts |-> JList([i \in 1..Len(c.parts) |-> DumpPart(c.parts[i])])]

\* variant: an entry that cannot be dumped leaves a placeholder in the output
SerializeItem_KeepsPlaceholder(item, acc, flag) ==
    IF item.dumpable
    THEN [serialized_history |-> Append(acc, model_dump(item.content)),
          serialization_error_occurred |-> flag]
    ELSE [serialized_history |-> Append(acc, Absent),
          serialization_error_occurred |-> TRUE]

\* serialize_history, one pass of the loop body: the dict is appended, or the
\* except clause sets the flag
SerializeItem(item, acc, flag) ==
    IF item.dumpable
    THEN [serialized_history |-> Append(acc, model_dump(item.content)),
          serialization_error_occurred |-> flag]
    ELSE [serialized_history |-> acc, serialization_error_occurred |-> TRUE]

\* the first tokens of the texts that start with "error:" or "warning:" in lower case
ErrorPrefixed ==
    { NotReadyText[1], PreparingErrorText[1], NoCandidatesText[1], LackedContentText[1],
      NoTextWarning[1], MaxLimitErrorText[1] }

\* process_chat_task lines 147-151
ResponseType(text) ==
    IF text # <<>> /\ text[1] \in ErrorPrefixed THEN "error" ELSE "model"

DisplayItem(type, text) == [type |-> type, text |-> text]

SaveErrorText == <<"Error saving full chat history state.">>

\* process_chat_task lines 159-171, 179-187: the display history that is saved
DisplayHistory(display, text, flag) ==
    display \o << DisplayItem("user", UserPrompt), DisplayItem(ResponseType(text), text) >>
            \o (IF flag THEN << DisplayItem("error", SaveErrorText) >> ELSE <<>>)

HistoryItems ==
    { HistoryItem(c, ok) :
        c \in { UserEntry, Content("model", << FunctionCallPart("t1", "dict") >>),
                FunctionEntry("t1", UnknownToolResponse("t1")) },
        ok \in BOOLEAN }

Histories == UNION { [1..n -> HistoryItems] : n \in 0..MaxHistory }

\* process_chat_task at line 173: process_prompt returned, the history is about
\* to be serialized
InitSerialize ==
    /\ NoTurn
    /\ last_known_tools = [s \in ServerIds |-> <<>>]
    /\ AdapterIdle
    /\ updated_gemini_history \in Histories
    /\ item_index = 1
    /\ serialized_history = <<>>
    /\ serialization_error_occurred = FALSE
    /\ history_cache = EmptyCache
    /\ final_response_text \in { Hello, NotReadyText }
    /\ save_pc = "serialize"
    /\ chat_task = NoMessages

SaveFrame ==
    << gemini_client, mcp_servers, prompt_ok, internal_step_callback, gemini_history,
       other_turn, last_known_tools,
       current_turn_history, TurnLocals, pc, result, Discovery, Logs, AdapterRun,
       chat_task >>

\* serialize_history lines 56-66: one pass of the loop
SerializeStep ==
    /\ save_pc = "serialize"
    /\ item_index <= Len(updated_gemini_history)
    /\ LET after == SerializeItem(updated_gemini_history[item_index], serialized_history,
                                  serialization_error_occurred)
       IN  /\ serialized_history' = after.serialized_history
           /\ serialization_error_occurred' = after.serialization_error_occurred
    /\ item_index' = item_index + 1
    /\ UNCHANGED << SaveFrame, updated_gemini_history, history_cache, final_response_text, save_pc >>

\* serialize_history line 68 and process_chat_task lines 179-194: the loop is
\* over, the bundle is written to the cache
SaveCache ==
    /\ save_pc = "serialize"
    /\ item_index > Len(updated_gemini_history)
    /\ history_cache' =
          [gemini_history_internal |-> serialized_history,
           chat_history_display |->
               DisplayHistory(history_cache.chat_history_display, final_response_text,
                              serialization_error_occurred)]
    /\ save_pc' = "saved"
    /\ UNCHANGED << SaveFrame, updated_gemini_history, item_index, serialized_history,
                    serialization_error_occurred, final_response_text >>

NextSerialize == SerializeStep \/ SaveCache

\* the persistence of each history of Histories; the task thread runs on
SpecSerialize == InitSerialize /\ [][NextSerialize]_vars /\ WF_vars(NextSerialize)

(***************************************************************************)
(* A session: process_user_message and the background tasks it starts      *)
(***************************************************************************)
\* the prompts of the session's messages, in order of arrival
Prompts == << <<"first message">>, <<"second message">>, <<"third message">> >>

Answers == << <<"first answer">>, <<"second answer">>, <<"third answer">> >>

UserEntryOf(t) == Content("user", << TextPart(Prompts[t]) >>)

ModelEntryOf(t) == Content("model", << TextPart(Answers[t]) >>)

\* variant: a failing check lets the message through
check_initialization_Skipped(client, servers) == NoText

\* _check_initialization: the error message, or None
check_initialization(client, servers) ==
    IF ~client THEN SomeText(<<"Chat client not initialized.">>)
    ELSE IF servers = <<>> THEN SomeText(<<"Tool servers not initialized.">>)
    ELSE NoText

\* Part.model_validate of a dumped part
LoadPart(d) ==
    IF d.text.some THEN TextPart(d.text.val)
    ELSE IF d.function_call # NoFunctionCall
    THEN FunctionCallPart(d.function_call.name, d.function_call.args)
    ELSE FunctionResponsePart(d.function_response.name, d.function_response.response)

\* a cached item that Content.model_validate accepts
IsContentDict(d) == DOMAIN d = {"role", "parts"}

\* Content.model_validate(item) of an accepted item
model_validate(d) ==
    Content(d.role.s, [i \in 1..Len(d.parts.l) |-> LoadPart(d.parts.l[i])])

\* a cached item that Content.model_validate rejects
CorruptItem == JStr("corrupt")

\* _deserialize_history: the entries, or None (ok FALSE) when any item is rejected
deserialize_history(session_data) ==
    IF \A i \in 1..Len(session_data) : IsContentDict(session_data[i])
    THEN [ok |-> TRUE,
          history |-> [i \in 1..Len(session_data) |->
                          HistoryItem(model_validate(session_data[i]), TRUE)]]
    ELSE [ok |-> FALSE, history |-> <<>>]

RECURSIVE SerializeFrom(_, _, _)
SerializeFrom(h, acc, flag) ==
    IF h = <<>> THEN [serialized_history |-> acc, serialization_error_occurred |-> flag]
    ELSE LET after == SerializeItem(Head(h), acc, flag)
         IN  SerializeFrom(Tail(h), after.serialized_history,
                           after.serialization_error_occurred)

\* _serialize_history: the dicts of the entries and the error flag
serialize_history(h) == SerializeFrom(h, <<>>, FALSE)

\* process_user_message line 295
ResetCache ==
    [gemini_history_internal |-> <<>>,
     chat_history_display |-> << DisplayItem("error", <<"History corrupted, reset.">>) >>]

Display0 == << DisplayItem("user", <<"hi">>),
               DisplayItem("model", <<"hello, how can I help?">>) >>

\* the cache entry an earlier turn saved
SavedCache ==
    [gemini_history_internal |->
        serialize_history([i \in 1..Len(History0) |-> HistoryItem(History0[i], TRUE)])
            .serialized_history,
     chat_history_display |-> Display0]

\* a cache entry whose internal history holds an item that cannot be loaded
CorruptCache ==
    [gemini_history_internal |-> Append(SavedCache.gemini_history_internal, CorruptItem),
     chat_history_display |-> Display0]

\* what process_prompt returns to the task of message t for the history h: an
\* answer and the history extended by the turn's entries, or a diagnostic and
\* the history as it was passed
ProcessPromptReturns(t, h) ==
    { [text |-> Answers[t],
       history |-> h \o << HistoryItem(UserEntryOf(t), TRUE),
                          HistoryItem(ModelEntryOf(t), TRUE) >>],
      [text |-> PreparingErrorText, history |-> h] }

CriticalErrorText == <<"Critical server error during processing: ", "e">>

\* the tasks that were started and have not ended
Running == { t \in Tasks : chat_task[t].pc \notin {"pending", "rejected", "done"} }

\* the session starts with the cache as earlier messages left it, and with the
\* client and the servers as the initializers left them
InitSession ==
    /\ gemini_client \in BOOLEAN
    /\ mcp_servers \in { <<>>, << "s1" >> }
    /\ prompt_ok = TRUE
    /\ internal_step_callback = "returns"
    /\ last_known_tools = [s \in ServerIds |-> <<>>]
    /\ gemini_history = <<>>
    /\ InitLocals
    /\ AdapterIdle
    /\ updated_gemini_history = <<>>
    /\ item_index = 1
    /\ serialized_history = <<>>
    /\ serialization_error_occurred = FALSE
    /\ history_cache \in { EmptyCache, SavedCache, CorruptCache }
    /\ final_response_text = <<>>
    /\ save_pc = "idle"
    /\ chat_task = NoMessages

SessionFrame ==
    << gemini_client, mcp_servers, prompt_ok, internal_step_callback, gemini_history,
       other_turn, last_known_tools, current_turn_history, TurnLocals, pc, result,
       Discovery, Logs, AdapterRun, updated_gemini_history, item_index,
       serialized_history, serialization_error_occurred, final_response_text, save_pc >>

\* message t arrives: the messages of a session arrive in order
Arrives(t) ==
    /\ chat_task[t].pc = "pending"
    /\ t > 1 => chat_task[t - 1].pc # "pending"

\* process_user_message lines 256-261: the prompt is empty
RejectEmptyPrompt(t) ==
    /\ Arrives(t)
    /\ chat_task' = [chat_task EXCEPT ![t].pc = "rejected",
                                      ![t].handler_events = << "error" >>]
    /\ UNCHANGED << SessionFrame, history_cache >>

\* process_user_message lines 263-280: the initialization check fails, the
\* error is added to the cached display history
RejectUninitialized(t) ==
    /\ Arrives(t)
    /\ LET init_error == check_initialization(gemini_client, mcp_servers)
       IN  /\ init_error.some
           /\ history_cache' =
                 [history_cache EXCEPT !.chat_history_display =
                     Append(@, DisplayItem("error", init_error.val))]
    /\ chat_task' = [chat_task EXCEPT ![t].pc = "rejected",
                                      ![t].handler_events = << "user", "error" >>]
    /\ UNCHANGED SessionFrame

\* process_user_message lines 282-299: the cached internal history cannot be
\* deserialized, the cache entry is reset
ResetCorrupted(t) ==
    /\ Arrives(t)
    /\ ~check_initialization(gemini_client, mcp_servers).some
    /\ ~deserialize_history(history_cache.gemini_history_internal).ok
    /\ history_cache' = ResetCache
    /\ chat_task' = [chat_task EXCEPT ![t].pc = "rejected",
                                      ![t].handler_events = << "user", "error" >>]
    /\ UNCHANGED SessionFrame

\* process_user_message lines 282-311: the background task is started with the
\* deserialized history
StartTask(t) ==
    /\ Arrives(t)
    /\ ~check_initialization(gemini_client, mcp_servers).some
    /\ LET loaded == deserialize_history(history_cache.gemini_history_internal)
       IN  /\ loaded.ok
           /\ chat_task' = [chat_task EXCEPT ![t].pc = "scheduled",
                                             ![t].initial_gemini_history = loaded.history,
                                             ![t].handler_events = << "user" >>,
                                             ![t].overlapped = Running]
    /\ UNCHANGED << SessionFrame, history_cache >>

\* process_chat_task lines 117-123
EmitProcessing(t) ==
    /\ chat_task[t].pc = "scheduled"
    /\ chat_task' = [chat_task EXCEPT ![t].pc = "processing",
                                      ![t].events = Append(@, "Processing...")]
    /\ UNCHANGED << SessionFrame, history_cache >>

\* lines 126-141: process_prompt returns; its callback emitted progress messages
RunTurnReturns(t) ==
    /\ chat_task[t].pc = "processing"
    /\ \E r \in ProcessPromptReturns(t, chat_task[t].initial_gemini_history) :
          chat_task' = [chat_task EXCEPT ![t].pc = "responded",
                                         ![t].returned = TRUE,
                                         ![t].final_response_text = r.text,
                                         ![t].updated_gemini_history = r.history,
                                         ![t].events = Append(@, "internal")]
    /\ UNCHANGED << SessionFrame, history_cache >>

\* lines 126-141: process_prompt raises (handle_function_call line 120)
RunTurnRaises(t) ==
    /\ chat_task[t].pc = "processing"
    /\ chat_task' = [chat_task EXCEPT ![t].pc = "failed",
                                      ![t].events = Append(@, "internal")]
    /\ UNCHANGED << SessionFrame, history_cache >>

\* lines 126-141: a tool server never answers, process_prompt never returns
RunTurnHangs(t) ==
    /\ chat_task[t].pc = "processing"
    /\ chat_task' = [chat_task EXCEPT ![t].pc = "hung",
                                      ![t].events = Append(@, "internal")]
    /\ UNCHANGED << SessionFrame, history_cache >>

\* lines 147-171: the response is emitted, the cached display history is read
\* and extended
ReadDisplay(t) ==
    /\ chat_task[t].pc = "responded"
    /\ LET text == chat_task[t].final_response_text
       IN  chat_task' =
             [chat_task EXCEPT
                ![t].pc = "updating",
                ![t].events = Append(@, ResponseType(text)),
                ![t].current_display_history =
                    history_cache.chat_history_display
                      \o << DisplayItem("user", Prompts[t]),
                            DisplayItem(ResponseType(text), text) >>]
    /\ UNCHANGED << SessionFrame, history_cache >>

\* lines 173-197: the returned history is serialized and the bundle is written
WriteCache(t) ==
    /\ chat_task[t].pc = "updating"
    /\ LET dumped == serialize_history(chat_task[t].updated_gemini_history)
           flag   == dumped.serialization_error_occurred
       IN  /\ history_cache' =
                 [gemini_history_internal |-> dumped.serialized_history,
                  chat_history_display |->
                      chat_task[t].current_display_history
                        \o (IF flag THEN << DisplayItem("error", SaveErrorText) >>
                            ELSE <<>>)]
           /\ chat_task' = [chat_task EXCEPT
                              ![t].pc = "finishing",
                              ![t].saved = TRUE,
                              ![t].events = IF flag THEN Append(@, "error") ELSE @]
    /\ UNCHANGED SessionFrame

\* lines 158-199: the cache update raises
UpdateRaises(t) ==
    /\ chat_task[t].pc = "updating"
    /\ chat_task' = [chat_task EXCEPT ![t].pc = "failed"]
    /\ UNCHANGED << SessionFrame, history_cache >>

\* lines 199-229: the except clause saves the user message and the error
HandleError(t) ==
    /\ chat_task[t].pc = "failed"
    /\ LET kept == IF chat_task[t].returned THEN chat_task[t].updated_gemini_history
                   ELSE chat_task[t].initial_gemini_history
       IN  history_cache' =
             [gemini_history_internal |-> serialize_history(kept).serialized_history,
              chat_history_display |->
                  history_cache.chat_history_display
                    \o << DisplayItem("user", Prompts[t]),
                          DisplayItem("error", CriticalErrorText) >>]
    /\ chat_task' = [chat_task EXCEPT ![t].pc = "finishing",
                                      ![t].events = Append(@, "error")]
    /\ UNCHANGED SessionFrame

\* lines 204-231: the error handling raises itself, the inner except clause logs it
ErrorHandlingRaises(t) ==
    /\ chat_task[t].pc = "failed"
    /\ chat_task' = [chat_task EXCEPT ![t].pc = "finishing"]
    /\ UNCHANGED << SessionFrame, history_cache >>

\* lines 233-236: the finally clause
EmitIdle(t) ==
    /\ chat_task[t].pc = "finishing"
    /\ chat_task' = [chat_task EXCEPT ![t].pc = "done",
                                      ![t].events = Append(@, "Idle")]
    /\ UNCHANGED << SessionFrame, history_cache >>

NextSession ==
    \/ \E t \in Tasks : RejectEmptyPrompt(t)
    \/ \E t \in Tasks : RejectUninitialized(t)
    \/ \E t \in Tasks : ResetCorrupted(t)
    \/ \E t \in Tasks : StartTask(t)
    \/ \E t \in Tasks : EmitProcessing(t)
    \/ \E t \in Tasks : RunTurnReturns(t)
    \/ \E t \in Tasks : RunTurnRaises(t)
    \/ \E t \in Tasks : RunTurnHangs(t)
    \/ \E t \in Tasks : ReadDisplay(t)
    \/ \E t \in Tasks : WriteCache(t)
    \/ \E t \in Tasks : UpdateRaises(t)
    \/ \E t \in Tasks : HandleError(t)
    \/ \E t \in Tasks : ErrorHandlingRaises(t)
    \/ \E t \in Tasks : EmitIdle(t)

\* the messages of one session; every handler and every task thread that can
\* take a step is run
SpecSession == InitSession /\ [][NextSession]_vars /\ WF_vars(NextSession)

(***************************************************************************)
(* Vocabulary of the properties                                            *)
(***************************************************************************)
Ended == pc \in {"returned", "raised"}

\* the entries of h that the turn added to the input history
TurnRange(h) == (Len(gemini_history) + 1)..Len(h)

ContainsFunctionCall(r) ==
    r.kind = "candidate" /\ r.has_content /\ FirstFunctionCall(r.parts) # NoFunctionCall

\* a text annotated with the tool-call-limit warning
IsLimitText(t) ==
    \/ t = MaxLimitErrorText
    \/ /\ Len(t) > Len(MaxLimitWarning)
       /\ SubSeq(t, Len(t) - Len(MaxLimitWarning) + 1, Len(t)) = MaxLimitWarning

\* the entries iteration i of the loop has to leave in the history, rebuilt from
\* what the backend answered and what dispatch and call_tool did
EntriesOfIteration(i) ==
    LET r == responses[i]
        D == { j \in 1..Len(dispatch_log) :
                 dispatch_log[j].iter = i /\ dispatch_log[j].server = NoServer }
        C == { j \in 1..Len(tool_calls) : tool_calls[j].iter = i }
    IN  (IF r.kind = "candidate" /\ r.has_content
         THEN << Content("model", r.parts) >> ELSE <<>>)
        \o (IF D # {}
            THEN LET n == dispatch_log[CHOOSE j \in D : TRUE].name
                 IN  << FunctionEntry(n, UnknownToolResponse(n)) >>
            ELSE <<>>)
        \o (IF C # {}
            THEN LET c == tool_calls[CHOOSE j \in C : TRUE]
                 IN  << FunctionEntry(c.name, ToolResultResponse(c.name, c.result)) >>
            ELSE <<>>)

RECURSIVE EntriesUpTo(_)
EntriesUpTo(n) == IF n = 0 THEN <<>> ELSE EntriesUpTo(n - 1) \o EntriesOfIteration(n)

\* the turn got past its setup
SetUp == gemini_client /\ prompt_ok

DiscoveryDone ==
    pc \in {"loop", "dispatch", "call_tool", "tool_returned", "returned", "raised"} /\ SetUp

DeclaredNames == { all_mcp_tools[i].name : i \in 1..Len(all_mcp_tools) }

\* the declarations of the adapters whose list_tools succeeded, in adapter order
RECURSIVE DeclarationsOfSuccesses(_)
DeclarationsOfSuccesses(servers) ==
    IF servers = <<>> THEN <<>>
    ELSE (IF list_ok[Head(servers)]
          THEN format_tools_for_gemini(LiveCatalog(Head(servers))) ELSE <<>>)
         \o DeclarationsOfSuccesses(Tail(servers))

(***************************************************************************)
(* C1                                                                      *)
(***************************************************************************)
\* C1: when every response of the backend contained a function call, the turn
\* ends only by returning, after exactly K backend calls and K dispatches, with a
\* text carrying the tool-call-limit warning.
C1_CeilingAfterExactlyK ==
    (Ended /\ responses # <<>>
       /\ \A i \in 1..Len(responses) : ContainsFunctionCall(responses[i]))
    => /\ pc = "returned"
       /\ Len(requests) = K
       /\ Len(dispatch_log) = K
       /\ function_call_count = K
       /\ IsLimitText(result.text)

(***************************************************************************)
(* C2                                                                      *)
(***************************************************************************)
\* C2: the history process_prompt returns is the input history followed by
\* exactly the entries of the turn, in order: the user entry, then per iteration
\* the model entry and the tool-result entry; after a rejection or a setup error
\* it is the input history.
C2_ReturnedHistoryExtendsInput ==
    pc = "returned" =>
        /\ result.history = gemini_history \o generated
        /\ generated = IF SetUp THEN << UserEntry >> \o EntriesUpTo(Len(responses))
                       ELSE <<>>

C2_Witness ==
    /\ pc = "returned"
    /\ gemini_history # <<>>
    /\ Len(result.history) = Len(gemini_history) + 4
    /\ Len(tool_calls) = 1

(***************************************************************************)
(* C3                                                                      *)
(***************************************************************************)
PrecededByMatchingCall(h, i) ==
    /\ i - 1 \in TurnRange(h)
    /\ h[i - 1].role = "model"
    /\ \E k \in 1..Len(h[i - 1].parts) :
          /\ h[i - 1].parts[k].kind = "function_call"
          /\ h[i - 1].parts[k].name = h[i].parts[1].name

\* C3: in the working history and in the returned history, every tool-result
\* entry the turn appended directly follows a model entry of the turn that holds
\* a function_call part for the same tool name.
C3_ToolResultFollowsItsCall ==
    /\ \A i \in TurnRange(current_turn_history) :
          current_turn_history[i].role = "function"
          => PrecededByMatchingCall(current_turn_history, i)
    /\ pc = "returned" =>
          \A i \in TurnRange(result.history) :
             result.history[i].role = "function"
             => PrecededByMatchingCall(result.history, i)

C3_Witness ==
    /\ pc = "returned"
    /\ \E i \in TurnRange(result.history) :
          /\ result.history[i].role = "function"
          /\ Len(result.history[i - 1].parts) = 2

(***************************************************************************)
(* C4                                                                      *)
(***************************************************************************)
\* C4: process_prompt never raises past its boundary, and what it returns has a
\* non-empty text.
C4_AlwaysReturnsAText ==
    /\ pc # "raised"
    /\ pc = "returned" => result.text # <<>>

(***************************************************************************)
(* C5                                                                      *)
(***************************************************************************)
Rejected ==
    /\ pc = "returned"
    /\ result = [text |-> NotReadyText, history |-> gemini_history]
    /\ generated = <<>>
    /\ requests = <<>>
    /\ \A s \in ServerIds : list_state[s] = "idle"

\* C5 as stated: with the client missing or the server dict empty, the call is
\* rejected with the not-ready text and the input history, with no user entry, no
\* discovery and no backend call.
C5_RejectsWhenClientOrServersMissing ==
    (pc # "start" /\ (~gemini_client \/ mcp_servers = <<>>)) => Rejected

\* C5 amended: only a missing client rejects the call; with an empty server dict
\* (and the client present) the turn proceeds: the user entry is appended, no
\* list_tools runs, the tool list is empty and the backend is called with it.
C5_RejectsOnlyWhenClientMissing ==
    /\ (pc # "start" /\ ~gemini_client) => Rejected
    /\ (pc # "start" /\ SetUp /\ mcp_servers = <<>>) =>
          /\ Len(current_turn_history) > Len(gemini_history)
          /\ current_turn_history[Len(gemini_history) + 1] = UserEntry
          /\ \A s \in ServerIds : list_state[s] = "idle"
          /\ all_mcp_tools = <<>>
          /\ \/ pc = "loop" /\ function_call_count = 0 /\ requests = <<>>
             \/ /\ requests # <<>>
                /\ requests[1] = [history |-> Append(gemini_history, UserEntry),
                                  tools |-> <<>>]

C5_Witness ==
    /\ gemini_client
    /\ mcp_servers = <<>>
    /\ pc = "returned"
    /\ Len(requests) = 2


(***************************************************************************)
(* C6                                                                      *)
(***************************************************************************)
\* the first function call of response i names a tool of no catalog
RequestsUnknownTool(i) ==
    /\ ContainsFunctionCall(responses[i])
    /\ FirstFunctionCall(responses[i].parts).name \notin CatalogNames

\* C6: when the model requests a tool name of no catalog the turn does not end
\* there: an error tool-result entry echoing the name is appended, the counter is
\* incremented, and the next backend call (if the ceiling allows one) is made
\* with that entry in its history.
C6_UnknownToolContinues ==
    \A i \in 1..Len(responses) :
        (RequestsUnknownTool(i) /\ ~(i = Len(responses) /\ pc = "dispatch")) =>
            LET n == FirstFunctionCall(responses[i].parts).name
                e == FunctionEntry(n, UnknownToolResponse(n))
            IN  /\ pc # "raised"
                /\ \E j \in 1..Len(dispatch_log) :
                      /\ dispatch_log[j].iter = i
                      /\ current_turn_history[dispatch_log[j].at] = e
                /\ function_call_count >= i
                /\ (i = Len(responses) /\ pc = "returned") => function_call_count >= K
                /\ i < Len(responses) =>
                      requests[i + 1].history[Len(requests[i + 1].history)] = e

(***************************************************************************)
(* C7                                                                      *)
(***************************************************************************)
\* C7: when call_tool returns the failure value for a known tool, the entry
\* appended for that call is the "Failed to execute tool" error response naming
\* the tool, the counter is incremented, and the turn goes on: it ends there only
\* by the ceiling, and the next backend call has the entry in its history.
C7_FailedToolCallContinues ==
    \A j \in 1..Len(tool_calls) :
        tool_calls[j].result = None =>
            LET c == tool_calls[j]
                e == FunctionEntry(c.name, FailedToolResponse(c.name))
            IN  /\ c.name \in CatalogNames
                /\ current_turn_history[c.at] = e
                /\ function_call_count >= c.iter
                /\ (Ended /\ Len(requests) = c.iter) =>
                      /\ pc = "returned"
                      /\ function_call_count >= K
                      /\ IsLimitText(result.text)
                /\ Len(requests) > c.iter =>
                      requests[c.iter + 1].history = SubSeq(current_turn_history, 1, c.at)

C7_Witness ==
    \E j \in 1..Len(tool_calls) :
        /\ tool_calls[j].result = None
        /\ Len(requests) > tool_calls[j].iter

(***************************************************************************)
(* C8                                                                      *)
(***************************************************************************)
\* C8 as stated: a generate request that raises does not end the turn.
C8_BackendFailureDoesNotEndTurn ==
    ~(pc = "returned" /\ responses # <<>>
        /\ responses[Len(responses)].kind = "raise")

\* C8 amended: a generate request that raises is caught and never raised past
\* process_prompt, but it ends the turn: process_prompt returns the text "An
\* unexpected server error occurred: ..." with the history as it was sent in
\* that request, and makes no further request.
C8_BackendFailureEndsTurnWithDiagnostic ==
    \A i \in 1..Len(responses) :
        responses[i].kind = "raise" =>
            /\ i = Len(responses)
            /\ pc = "returned"
            /\ result.text = ServerErrorText
            /\ result.history = requests[i].history

C8_Witness ==
    /\ pc = "returned"
    /\ Len(responses) = 2
    /\ responses[2].kind = "raise"
    /\ Len(tool_calls) = 1

C10_DeclaredToolsResolve ==
    \A j \in 1..Len(dispatch_log) :
        dispatch_log[j].name \in DeclaredNames => dispatch_log[j].server # NoServer

(***************************************************************************)
(* C11                                                                     *)
(***************************************************************************)
\* C11: list_tools never raises past the adapter: the turn is never left raised
\* by its discovery; once the catalog has arrived the cache is that catalog, whole;
\* a call that succeeded has left the cache equal to the catalog received and has
\* returned it; a call that failed (connecting, in the handshake, in the request
\* or while disconnecting) has left the cache empty and has returned the empty
\* list.
C11_ListToolsReplacesOrClears ==
    /\ pc = "raised" => DiscoveryDone /\ function_call_requested.args = "None"
    /\ \A s \in ServerIds :
          /\ list_state[s] \in {"assigned", "exiting"}
                => last_known_tools[s] = LiveCatalog(s)
          /\ list_state[s] = "exiting" => tool_results[s] = LiveCatalog(s)
          /\ (list_state[s] = "done" /\ list_ok[s])
                => /\ last_known_tools[s] = LiveCatalog(s)
                   /\ tool_results[s] = LiveCatalog(s)
          /\ (list_state[s] = "done" /\ ~list_ok[s])
                => /\ last_known_tools[s] = <<>>
                   /\ tool_results[s] = <<>>

C11_Witness ==
    /\ pc = "discover"
    /\ list_state["s1"] = "done" /\ ~list_ok["s1"] /\ last_known_tools["s1"] = <<>>
    /\ list_state["s2"] = "done" /\ list_ok["s2"]
    /\ tool_results["s2"] = LiveCatalog("s2")

(***************************************************************************)
(* C12                                                                     *)
(***************************************************************************)
\* C12: every step that ends an awaited call_tool returns to
\* handle_function_call (the turn is not left raised); when connecting, the
\* handshake, the invocation or disconnecting failed, the value returned is None,
\* otherwise it is the server's result; and the step leaves every adapter's
\* cached catalog as it was.
C12_CallToolReturnsNoneOnFailure ==
    [][ (pc = "call_tool" /\ pc' # "call_tool") =>
            /\ pc' = "tool_returned"
            /\ call_failure' \in CallFailures => tool_result' = None
            /\ call_failure' = NoFailure => tool_result' \in ServerResults
            /\ last_known_tools' = last_known_tools ]_vars

C12_Witness ==
    /\ pc = "tool_returned"
    /\ call_failure = "disconnect"
    /\ tool_result = None
    /\ last_known_tools[target_server] = LiveCatalog(target_server)

(***************************************************************************)
(* C13                                                                     *)
(***************************************************************************)
HungOperation == pc = "hung" \/ \E s \in ServerIds : list_state[s] = "hung"

\* C13: an adapter operation that hangs is eventually ended (by its timeout),
\* and a turn in discovery eventually gets to the loop that calls the backend,
\* whatever its adapters do.
C13_HungOperationIsEnded ==
    /\ HungOperation ~> ~HungOperation
    /\ (pc = "discover") ~> (pc = "loop")

(***************************************************************************)
(* C14                                                                     *)
(***************************************************************************)
\* the positions, in the iteration order of mcp_servers, of the adapters whose
\* cached catalog holds the name
Holders(name) ==
    { i \in 1..Len(mcp_servers) : HasTool(last_known_tools[mcp_servers[i]], name) }

\* C14 as stated: a dispatch that resolves a name resolves it to the adapter
\* that comes last, in iteration order, among those whose catalog holds it.
C14_DispatchResolvesToLastHolder ==
    [][ (pc = "dispatch" /\ pc' = "call_tool") =>
            \E i \in Holders(function_call_requested.name) :
                /\ target_server' = mcp_servers[i]
                /\ \A j \in Holders(function_call_requested.name) : j <= i ]_vars

\* C14 amended: a dispatch that resolves a name resolves it to the adapter that
\* comes first, in iteration order, among those whose catalog holds it.
C14_DispatchResolvesToFirstHolder ==
    [][ (pc = "dispatch" /\ pc' = "call_tool") =>
            \E i \in Holders(function_call_requested.name) :
                /\ target_server' = mcp_servers[i]
                /\ \A j \in Holders(function_call_requested.name) : i <= j ]_vars

C14_Witness ==
    /\ pc = "call_tool"
    /\ function_call_requested.name = "t1"
    /\ mcp_servers = << "s1", "s2" >>
    /\ Holders("t1") = {1, 2}
    /\ target_server = "s1"

(***************************************************************************)
(* C15                                                                     *)
(***************************************************************************)
\* the turn ended by the ceiling
EndedByCeiling ==
    pc = "returned" /\ function_call_count >= MAX_FUNCTION_CALLS_PER_TURN /\ responses # <<>>

\* the text of the last answer of the backend, empty when it carried none
LastResponseText ==
    LET last == responses[Len(responses)]
    IN  IF Truthy(ResponseText(last)) THEN ResponseText(last).val ELSE <<>>

C16_NormalizerIsIdempotent ==
    adapter_pc = "recleaned" =>
        /\ recleaned_schema = cleaned_schema
        /\ schema = Absent => cleaned_schema = Absent

C16_Witness ==
    /\ adapter_pc = "recleaned"
    /\ cleaned_schema \notin {Absent, schema}
    /\ "type" \in DOMAIN schema.d /\ schema.d["type"] = JStr("null")
    /\ "items" \in DOMAIN cleaned_schema.d
    /\ recleaned_schema = cleaned_schema

(***************************************************************************)
(* C17                                                                     *)
(***************************************************************************)
Normalized == adapter_pc \in {"cleaned", "recleaned"}

\* a key with an absent value, or a `type` key with the value "null", anywhere in
\* v; the keys of a properties map are property names, not schema keys
RECURSIVE HoldsNull(_, _)
HoldsNull(v, isPropertiesMap) ==
    IF v.t = "dict"
    THEN \E k \in DOMAIN v.d :
            \/ v.d[k] = Absent
            \/ ~isPropertiesMap /\ k = "type" /\ v.d[k] = JStr("null")
            \/ HoldsNull(v.d[k], ~isPropertiesMap /\ k = "properties")
    ELSE IF v.t = "list"
    THEN \E i \in 1..Len(v.l) : HoldsNull(v.l[i], FALSE)
    ELSE FALSE

\* C17: what clean_schema_for_gemini returns holds, at no depth, a key whose
\* value is absent or a `type` key whose value is "null".
C17_OutputHoldsNoNull ==
    Normalized => ~HoldsNull(cleaned_schema, FALSE)

(***************************************************************************)
(* C18                                                                     *)
(***************************************************************************)
\* the sub-schemas of a schema object: the values of its properties map, its other
\* object values and the objects in its array values
SubSchemas(v) ==
    UNION { IF k = "properties" /\ v.d[k].t = "dict"
            THEN { v.d[k].d[pk] : pk \in { q \in DOMAIN v.d[k].d : v.d[k].d[q].t = "dict" } }
            ELSE IF v.d[k].t = "dict" THEN { v.d[k] }
            ELSE IF v.d[k].t = "list"
            THEN { v.d[k].l[i] : i \in { j \in 1..Len(v.d[k].l) : v.d[k].l[j].t = "dict" } }
            ELSE {} : k \in DOMAIN v.d }

\* a schema object and all the sub-schemas below it
RECURSIVE AllSchemas(_)
AllSchemas(v) ==
    IF v.t # "dict" THEN {}
    ELSE {v} \cup UNION { AllSchemas(w) : w \in SubSchemas(v) }

\* the schema has a type that pruning keeps
TypeSurvives(sch) ==
    /\ "type" \in DOMAIN sch.d
    /\ sch.d["type"].t = "str"
    /\ sch.d["type"] # JStr("null")

\* the schema has no type, or one that pruning drops
TypeGone(sch) == "type" \in DOMAIN sch.d => sch.d["type"] \in {Absent, JStr("null")}

\* C18: in what clean_schema_for_gemini returns for a dict, every (sub)schema
\* with a properties key has a type key and no (sub)schema is empty (the result
\* is None instead); a type of the input that pruning keeps, OBJECT included, is
\* in the output even when no property is left; when the input's type is
\* missing or pruned, the output has type OBJECT if properties are left and no
\* type otherwise.
C18_TypeInferredWithProperties ==
    (Normalized /\ schema.t = "dict") =>
        /\ \A w \in AllSchemas(cleaned_schema) :
              /\ "properties" \in DOMAIN w.d => "type" \in DOMAIN w.d
              /\ DOMAIN w.d # {}
        /\ TypeSurvives(schema) =>
              /\ cleaned_schema.t = "dict"
              /\ "type" \in DOMAIN cleaned_schema.d
              /\ cleaned_schema.d["type"] = schema.d["type"]
        /\ TypeGone(schema) =>
              IF cleaned_schema.t = "dict" /\ "properties" \in DOMAIN cleaned_schema.d
              THEN /\ "type" \in DOMAIN cleaned_schema.d
                   /\ cleaned_schema.d["type"] = JStr("OBJECT")
              ELSE cleaned_schema = Absent \/ "type" \notin DOMAIN cleaned_schema.d

C18_Witness ==
    /\ Normalized
    /\ schema.t = "dict"
    /\ "type" \in DOMAIN schema.d /\ schema.d["type"] = JStr("null")
    /\ cleaned_schema.t = "dict"
    /\ "properties" \in DOMAIN cleaned_schema.d
    /\ cleaned_schema.d["type"] = JStr("OBJECT")
    /\ \E w \in AllSchemas(cleaned_schema) : w # cleaned_schema

(***************************************************************************)
(* C19                                                                     *)
(***************************************************************************)
\* C19: no (sub)schema of what clean_schema_for_gemini returns has one of the
\* keys additionalProperties, $schema, title; an entry of the input's properties
\* map, whatever its name, is in the output's properties map with its own
\* normalization as value, unless that normalization is None.
C19_DisallowedKeysDroppedExceptPropertyNames ==
    (Normalized /\ schema.t = "dict") =>
        /\ \A w \in AllSchemas(cleaned_schema) : DOMAIN w.d \cap DisallowedKeys = {}
        /\ ("properties" \in DOMAIN schema.d /\ schema.d["properties"].t = "dict") =>
              \A pk \in DOMAIN schema.d["properties"].d :
                 LET sub == clean_schema_for_gemini(schema.d["properties"].d[pk])
                 IN  IF sub = Absent
                     THEN (cleaned_schema.t = "dict" /\ "properties" \in DOMAIN cleaned_schema.d)
                          => pk \notin DOMAIN cleaned_schema.d["properties"].d
                     ELSE /\ cleaned_schema.t = "dict"
                          /\ "properties" \in DOMAIN cleaned_schema.d
                          /\ pk \in DOMAIN cleaned_schema.d["properties"].d
                          /\ cleaned_schema.d["properties"].d[pk] = sub

C19_Witness ==
    /\ Normalized
    /\ schema.t = "dict"
    /\ "properties" \in DOMAIN schema.d
    /\ schema.d["properties"] = JDict("title" :> JDict(("title" :> JStr("string")) @@ ("type" :> JStr("string"))))
    /\ cleaned_schema.d["properties"] = JDict("title" :> JDict("type" :> JStr("string")))

(***************************************************************************)
(* C20                                                                     *)
(***************************************************************************)
DescriptorOk(tool) == tool.schema_ok

\* C20: format_tools_for_gemini returns the declarations of exactly the cached
\* descriptors for which building the declaration did not fail, in cache order.
C20_FormatSkipsFailingDescriptors ==
    adapter_pc = "formatted" =>
        LET ok == SelectSeq(last_known_tools["s1"], DescriptorOk)
        IN  /\ Len(gemini_tools) = Len(ok)
            /\ \A i \in 1..Len(ok) : gemini_tools[i] = [name |-> ok[i].name]

C20_Witness ==
    /\ adapter_pc = "formatted"
    /\ Len(last_known_tools["s1"]) = 3
    /\ ~last_known_tools["s1"][1].schema_ok
    /\ last_known_tools["s1"][2].schema_ok
    /\ ~last_known_tools["s1"][3].schema_ok
    /\ gemini_tools = << [name |-> last_known_tools["s1"][2].name] >>

(***************************************************************************)
(* C21                                                                     *)
(***************************************************************************)
\* the dicts of the entries of h that can be dumped, in the order of h
RECURSIVE DumpsOfDumpable(_)
DumpsOfDumpable(h) ==
    IF h = <<>> THEN <<>>
    ELSE (IF Head(h).dumpable THEN << model_dump(Head(h).content) >> ELSE <<>>)
         \o DumpsOfDumpable(Tail(h))

SomeEntryFailed ==
    \E i \in 1..Len(updated_gemini_history) : ~updated_gemini_history[i].dumpable

\* C21: the history written to the cache is exactly the dicts of the entries that
\* serialized, in their original order; the error flag is true iff at least one
\* entry failed; and the write takes place whatever entries failed.
C21_FailingEntriesDroppedSaveProceeds ==
    /\ [](save_pc = "saved" =>
            /\ history_cache.gemini_history_internal = DumpsOfDumpable(updated_gemini_history)
            /\ serialization_error_occurred <=> SomeEntryFailed)
    /\ <>(save_pc = "saved")

C21_Witness ==
    /\ save_pc = "saved"
    /\ Len(updated_gemini_history) = 3
    /\ ~updated_gemini_history[2].dumpable
    /\ Len(history_cache.gemini_history_internal) = 2
    /\ serialization_error_occurred

(***************************************************************************)
(* C22                                                                     *)
(***************************************************************************)
\* the turn ended without a request to the backend, the way the turn without
\* callback ends on the same inputs: rejected, or unable to build the user part
EndsBeforeBackendAsWithoutCallback ==
    \/ NotReady(gemini_client, mcp_servers)
          /\ pc = "returned" /\ result = [text |-> NotReadyText, history |-> gemini_history]
    \/ ~NotReady(gemini_client, mcp_servers) /\ ~prompt_ok
          /\ pc = "returned"
          /\ result = [text |-> PreparingErrorText, history |-> gemini_history]

\* C22: the callback is purely observational: whatever callback the turn is
\* called with, it ends as the turn without callback does on the same inputs; in
\* particular a turn that ends before any request to the backend was rejected
\* or could not build the user part, and with a usable prompt and a client the
\* turn reaches the backend.
C22_CallbackIsObservational ==
    (Ended /\ requests = <<>>) => EndsBeforeBackendAsWithoutCallback

(***************************************************************************)
(* C23                                                                     *)
(***************************************************************************)
\* a step of this turn that invokes list_tools on adapter s
InvokesListTools(s) == list_state[s] # "running" /\ list_state'[s] = "running"

\* C23: list_tools is invoked on an adapter only from its idle state (so once),
\* in the step that has appended the user entry and before any request to the
\* backend; once the turn is past that step every configured adapter has been
\* invoked, and no other; at every request all invocations have completed; the
\* tool list never changes after the first request, and every request of the
\* turn carried the same list.
C23_DiscoveryOncePerTurn ==
    /\ [][\A s \in ServerIds :
             InvokesListTools(s) =>
                /\ list_state[s] = "idle"
                /\ InServers(s)
                /\ pc = "start"
                /\ current_turn_history' = Append(gemini_history, UserEntry)
                /\ requests' = <<>>]_vars
    /\ [][requests # <<>> => all_mcp_tools' = all_mcp_tools]_vars
    /\ []((pc \notin {"start", "returned", "raised"}) =>
            \A s \in ServerIds : InServers(s) <=> list_state[s] # "idle")
    /\ [](requests # <<>> =>
            /\ \A s \in ServerIds : list_state[s] \in {"idle", "done"}
            /\ \A i \in 1..Len(requests) : requests[i].tools = all_mcp_tools)

C23_Witness ==
    /\ Len(requests) = 2
    /\ Len(mcp_servers) = 2
    /\ requests[1].tools # <<>>
    /\ other_turn = "done"

(***************************************************************************)
(* C24                                                                     *)
(***************************************************************************)
SeveralFunctionCalls(r) ==
    /\ r.kind = "candidate"
    /\ r.has_content
    /\ Cardinality({ k \in 1..Len(r.parts) : r.parts[k].kind = "function_call" }) >= 2

\* iteration i of the loop is over
IterationOver(i) == i < Len(requests) \/ Ended

\* the tool-result entries of the working history that iteration i appended
ToolResultEntriesOf(i) ==
    { p \in TurnRange(current_turn_history) :
        /\ current_turn_history[p].role = "function"
        /\ Cardinality({ q \in TurnRange(current_turn_history) :
                           q < p /\ current_turn_history[q].role = "model" }) = i }

\* C24: for a response with several function-call parts, once its iteration is
\* over: exactly one dispatch was made, for the name of the first call; any tool
\* invocation was for that name; and exactly one tool-result entry was appended,
\* for that name.
C24_OnlyFirstFunctionCallHonoured ==
    \A i \in 1..Len(responses) :
        (SeveralFunctionCalls(responses[i]) /\ IterationOver(i)) =>
            LET first == FirstFunctionCall(responses[i].parts).name
                D == { j \in 1..Len(dispatch_log) : dispatch_log[j].iter = i }
                T == { j \in 1..Len(tool_calls) : tool_calls[j].iter = i }
                F == ToolResultEntriesOf(i)
            IN  /\ Cardinality(D) = 1
                /\ \A j \in D : dispatch_log[j].name = first
                /\ Cardinality(T) <= 1
                /\ \A j \in T : tool_calls[j].name = first
                /\ Cardinality(F) = 1
                /\ \A p \in F : current_turn_history[p].parts[1].name = first

(***************************************************************************)
(* C25                                                                     *)
(***************************************************************************)
\* the entries the backend returned in the turn, in order: the content of each
\* response that had a candidate with content
RECURSIVE ReturnedModelEntries(_)
ReturnedModelEntries(rs) ==
    IF rs = <<>> THEN <<>>
    ELSE (IF Head(rs).kind = "candidate" /\ Head(rs).has_content
          THEN << Content("model", Head(rs).parts) >> ELSE <<>>)
         \o ReturnedModelEntries(Tail(rs))

IsModelEntry(e) == e.role = "model"

\* the model entries of h that the turn added
ModelEntriesOfTurn(h) ==
    SelectSeq(SubSeq(h, Len(gemini_history) + 1, Len(h)), IsModelEntry)

\* C25: at every moment the model entries the turn added to the working history
\* are the entries the backend returned so far, in order, with or without a
\* function call; while a tool is being dispatched or called for a response, its
\* entry is already the last entry of the working history; and the returned
\* history holds exactly those model entries.
C25_ModelEntryAppendedUnconditionally ==
    /\ SetUp /\ pc # "start" =>
          ModelEntriesOfTurn(current_turn_history) = ReturnedModelEntries(responses)
    /\ pc \in {"dispatch", "call_tool", "tool_returned"} =>
          /\ current_turn_history # <<>>
          /\ current_turn_history[Len(current_turn_history)]
                = Content("model", responses[Len(responses)].parts)
    /\ pc = "returned" =>
          ModelEntriesOfTurn(result.history) = ReturnedModelEntries(responses)

C25_Witness ==
    /\ pc = "returned"
    /\ Len(responses) = 2
    /\ ContainsFunctionCall(responses[1])
    /\ Len(ModelEntriesOfTurn(result.history)) = 2
    /\ Len(tool_calls) = 1

(***************************************************************************)
(* C26                                                                     *)
(***************************************************************************)
\* a response with no candidate and no plain text
Unusable(r) == r.kind = "no_candidates" /\ ~Truthy(ResponseText(r))

\* C26: when the last response of the backend is unusable, the turn has
\* returned, with the no-candidates diagnostic (an error text) and with the
\* history as it was sent with that request: the input history, the user entry
\* and the entries of the iterations completed before.
C26_UnusableResponseEndsTurn ==
    (responses # <<>> /\ Unusable(responses[Len(responses)])) =>
        /\ pc = "returned"
        /\ result.text = NoCandidatesText
        /\ ResponseType(result.text) = "error"
        /\ result.history = requests[Len(requests)].history
        /\ result.history
             = gemini_history \o << UserEntry >> \o EntriesUpTo(Len(responses) - 1)

C26_Witness ==
    /\ Len(responses) = 2
    /\ Unusable(responses[2])
    /\ Len(tool_calls) = 1
    /\ Len(result.history) = Len(gemini_history) + 3

(***************************************************************************)
(* C27                                                                     *)
(***************************************************************************)
\* a response with a candidate that asks for no tool
NoFunctionCallIn(r) ==
    r.kind = "candidate" /\ FirstFunctionCall(r.parts) = NoFunctionCall

\* the text names the finish reason of the response
ReportsFinishReason(text, r) == \E k \in 1..Len(text) : text[k] = FinishReason(r)

\* C27 (as claimed): when the last response holds no function call the turn has
\* returned; its text is the response's text if it has one, and otherwise a
\* diagnostic that reports the finish reason of the response.
C27_NoFunctionCallEndsTurnReportingFinishReason ==
    (responses # <<>> /\ NoFunctionCallIn(responses[Len(responses)])) =>
        LET r == responses[Len(responses)]
        IN  /\ pc = "returned"
            /\ IF Truthy(ResponseText(r)) THEN result.text = ResponseText(r).val
               ELSE ReportsFinishReason(result.text, r)

\* C27 (amended): when the last response holds no function call the turn has
\* returned in that iteration; its text is the response's text if it has a
\* non-empty one; otherwise it is the fixed no-text warning, or the
\* lacked-content error when the candidate has no content, and neither reports
\* the finish reason.
C27_NoFunctionCallEndsTurnWithTextOrWarning ==
    (responses # <<>> /\ NoFunctionCallIn(responses[Len(responses)])) =>
        LET r == responses[Len(responses)]
        IN  /\ pc = "returned"
            /\ Len(requests) = Len(responses)
            /\ IF Truthy(ResponseText(r)) THEN result.text = ResponseText(r).val
               ELSE /\ result.text = IF r.has_content THEN NoTextWarning
                                     ELSE LackedContentText
                    /\ ~ReportsFinishReason(result.text, r)

C27_Witness ==
    /\ pc = "returned"
    /\ Len(responses) = 2
    /\ Len(tool_calls) = 1
    /\ NoFunctionCallIn(responses[2])
    /\ responses[2].has_content
    /\ result.text = NoTextWarning

(***************************************************************************)
(* C28                                                                     *)
(***************************************************************************)
\* the turn returned after n responses with a function call followed by one
\* response of plain text
CallsThenText(n) ==
    /\ pc = "returned"
    /\ Len(responses) = n + 1
    /\ n < MAX_FUNCTION_CALLS_PER_TURN
    /\ \A i \in 1..n : ContainsFunctionCall(responses[i])
    /\ NoFunctionCallIn(responses[n + 1])
    /\ Truthy(ResponseText(responses[n + 1]))

\* C28: such a turn returns the input history followed by exactly 2n+2 entries:
\* the user entry, n pairs of the model entry with the function call and the
\* tool-result entry with the function response for the called name, and the
\* model entry with the final text; the text returned is the text of the last
\* response.
C28_HistoryOfCallsThenText ==
    \A n \in 0..(MAX_FUNCTION_CALLS_PER_TURN - 1) :
        CallsThenText(n) =>
            LET h == result.history
                b == Len(gemini_history)
            IN  /\ Len(h) = b + 2 * n + 2
                /\ SubSeq(h, 1, b) = gemini_history
                /\ h[b + 1] = UserEntry
                /\ \A i \in 1..n :
                      /\ h[b + 2 * i] = Content("model", responses[i].parts)
                      /\ h[b + 2 * i + 1].role = "function"
                      /\ Len(h[b + 2 * i + 1].parts) = 1
                      /\ h[b + 2 * i + 1].parts[1].kind = "function_response"
                      /\ h[b + 2 * i + 1].parts[1].name
                           = FirstFunctionCall(responses[i].parts).name
                /\ h[b + 2 * n + 2] = Content("model", responses[n + 1].parts)
                /\ result.text = ResponseText(responses[n + 1]).val

C28_Witness ==
    /\ CallsThenText(1)
    /\ gemini_history # <<>>
    /\ Len(tool_calls) = 1
    /\ tool_calls[1].result = TextResult
    /\ Len(result.history) = Len(gemini_history) + 4

(***************************************************************************)
(* C29                                                                     *)
(***************************************************************************)
\* the tool-result entry iteration i produced, as dispatch and call_tool logged it
LoggedToolResultAt(i, at) ==
    \/ \E j \in 1..Len(tool_calls) : tool_calls[j].iter = i /\ tool_calls[j].at = at
    \/ \E j \in 1..Len(dispatch_log) :
          /\ dispatch_log[j].iter = i
          /\ dispatch_log[j].server = NoServer
          /\ dispatch_log[j].at = at

\* C29: the request of iteration i+1 is issued only when iteration i is complete:
\* while a function call is dispatched or its tool is called, the latest request
\* is that of the running iteration; and the history sent with request i+1 is
\* the history of request i followed by the model entry of response i and the
\* tool-result entry of iteration i, which is its last entry.
C29_IterationsAreSequential ==
    /\ pc \in {"dispatch", "call_tool", "tool_returned"} =>
          Len(requests) = function_call_count + 1
    /\ pc = "loop" => Len(requests) = function_call_count
    /\ \A i \in 1..(Len(requests) - 1) :
          LET p == requests[i].history
              h == requests[i + 1].history
          IN  /\ Len(h) = Len(p) + 2
              /\ SubSeq(h, 1, Len(p)) = p
              /\ h[Len(p) + 1] = Content("model", responses[i].parts)
              /\ h[Len(h)].role = "function"
              /\ h[Len(h)].parts[1].name = FirstFunctionCall(responses[i].parts).name
              /\ LoggedToolResultAt(i, Len(h))

C29_Witness ==
    /\ Len(requests) = 2
    /\ Len(tool_calls) = 1
    /\ tool_calls[1].at = Len(requests[2].history)
    /\ other_turn = "done"

(***************************************************************************)
(* C30                                                                     *)
(***************************************************************************)
\* every list_tools coroutine of the gather has completed, in the order `order`
CompletedInOrder(order) == pc = "discover" /\ GatherDone /\ gather_order = order

\* the orders in which the coroutines of the configured servers can complete
CompletionOrders ==
    { o \in UNION { [1..n -> ServerIds] : n \in 0..Cardinality(ServerIds) } :
        /\ Len(o) = Len(mcp_servers)
        /\ \A s \in ServerIds : InServers(s) <=> \E i \in 1..Len(o) : o[i] = s }

\* C30: whatever the order in which the list_tools coroutines completed, the
\* merge that follows leaves the same combined list, the one determined by the
\* adapter collection and what each adapter listed: the declarations of the
\* adapters taken in the order of the collection.
C30_MergeIgnoresCompletionOrder ==
    [][\A order \in CompletionOrders :
          (CompletedInOrder(order) /\ pc' = "loop") =>
              all_mcp_tools' = DeclarationsOfSuccesses(mcp_servers)]_vars

C30_Witness ==
    /\ CompletedInOrder(<< "s2", "s1" >>)
    /\ list_ok["s1"]
    /\ list_ok["s2"]
    /\ merge_index = 2
    /\ all_mcp_tools = format_tools_for_gemini(LiveCatalog("s1"))

(***************************************************************************)
(* C31                                                                     *)
(***************************************************************************)
\* C31: for a result other than None, the function response is {"content": p}
\* where p is the text of the first content element when the content is a
\* non-empty list and that element has a text (the empty text included), else
\* the string form of the first element when the content is a non-empty list,
\* else the string form of the whole result.
C31_PayloadExtractionRule ==
    (adapter_pc = "function_response" /\ tool_result # None) =>
        LET r        == tool_result
            nonEmpty == r.content_is_list /\ r.content # <<>>
        IN  /\ function_response_part.key = "content"
            /\ (nonEmpty /\ r.content[1].text.some)
                  => function_response_part.value = r.content[1].text.val
            /\ (nonEmpty /\ ~r.content[1].text.some)
                  => function_response_part.value = Str(r.content[1].id)
            /\ ~nonEmpty => function_response_part.value = Str(r.id)

\* a result whose first element has no text, followed by one that has: the
\* payload is the string form of the first
C31_Witness ==
    /\ adapter_pc = "function_response"
    /\ tool_result # None
    /\ tool_result.content_is_list
    /\ Len(tool_result.content) = 2
    /\ ~tool_result.content[1].text.some
    /\ tool_result.content[2].text.some
    /\ function_response_part = [key |-> "content", value |-> Str("c_image")]

(***************************************************************************)
(* C32                                                                     *)
(***************************************************************************)
\* C32: at every moment of a turn the caller's list holds the entries it held
\* when process_prompt was called; every entry the turn created is in the
\* working copy, after the input's entries; and a turn that returns after having
\* created entries returns the working copy.
C32_InputHistoryNotMutated ==
    /\ initial_gemini_history = gemini_history
    /\ generated # <<>> => current_turn_history = gemini_history \o generated
    /\ (pc = "returned" /\ generated # <<>>) => result.history = current_turn_history

\* a turn on a non-empty input history that ended at the ceiling, having
\* appended five entries to its working copy
C32_Witness ==
    /\ pc = "returned"
    /\ gemini_history = History0
    /\ function_call_count = MAX_FUNCTION_CALLS_PER_TURN
    /\ Len(result.history) = Len(History0) + 1 + 2 * K
    /\ initial_gemini_history = History0

(***************************************************************************)
(* C33                                                                     *)
(***************************************************************************)
\* the tool-result entries the turn appended: iteration, position in the working
\* history, and the entry
ToolResultsAppended ==
    { [iter |-> dispatch_log[j].iter, at |-> dispatch_log[j].at,
       entry |-> FunctionEntry(dispatch_log[j].name,
                               UnknownToolResponse(dispatch_log[j].name))] :
        j \in { n \in 1..Len(dispatch_log) : dispatch_log[n].server = NoServer } }
    \cup
    { [iter |-> tool_calls[j].iter, at |-> tool_calls[j].at,
       entry |-> FunctionEntry(tool_calls[j].name,
                               ToolResultResponse(tool_calls[j].name,
                                                  tool_calls[j].result))] :
        j \in 1..Len(tool_calls) }

\* request j carried the entry e at its position
RequestCarries(j, e) ==
    /\ j \in 1..Len(requests)
    /\ Len(requests[j].history) >= e.at
    /\ requests[j].history[e.at] = e.entry

\* C33 (as stated): when the turn has returned, every tool-result entry it
\* appended was carried by a later request of the turn, the one of the last
\* iteration before the ceiling included.
C33_EveryToolResultSeenByLaterRequest ==
    pc = "returned" =>
        \A e \in ToolResultsAppended :
            \E j \in 1..Len(requests) : j > e.iter /\ RequestCarries(j, e)

\* C33 (amended): when the turn has returned, the tool-result entry appended in
\* an iteration before the K-th was carried by the next request and is in the
\* returned history; the one appended in the K-th iteration is in the returned
\* history only, no request carried it, since the turn made K requests and
\* ended at the ceiling.
C33_ToolResultSeenUnlessAtCeiling ==
    pc = "returned" =>
        \A e \in ToolResultsAppended :
            /\ Len(result.history) >= e.at
            /\ result.history[e.at] = e.entry
            /\ e.iter < K => RequestCarries(e.iter + 1, e)
            /\ e.iter >= K =>
                  /\ Len(requests) = K
                  /\ \A j \in 1..Len(requests) : ~RequestCarries(j, e)

\* a turn of K tool calls: the first result was carried by the second request,
\* the last by none
C33_Witness ==
    /\ pc = "returned"
    /\ Len(tool_calls) = K
    /\ Len(requests) = K
    /\ \E e \in ToolResultsAppended : e.iter = 1 /\ RequestCarries(2, e)
    /\ \E e \in ToolResultsAppended :
          e.iter = K /\ \A j \in 1..Len(requests) : ~RequestCarries(j, e)

(***************************************************************************)
(* C34                                                                     *)
(***************************************************************************)
\* the backend answered the last request without candidates but with a text
SalvageableResponse(r) == r.kind = "no_candidates" /\ Truthy(r.salvage)

\* C34: when the last response of a returned turn had no candidates but a
\* plain text, that text is the final text and the last entry of the returned
\* history is a model entry, created by the turn, that carries it.
C34_SalvagedTextBackedByModelEntry ==
    (pc = "returned" /\ responses # <<>>
       /\ SalvageableResponse(responses[Len(responses)])) =>
        LET text  == responses[Len(responses)].salvage.val
            entry == Content("model", << TextPart(text) >>)
        IN  /\ result.text = text
            /\ result.history # <<>>
            /\ result.history[Len(result.history)] = entry
            /\ generated # <<>>
            /\ generated[Len(generated)] = entry

(***************************************************************************)
(* C35                                                                     *)
(***************************************************************************)
\* the step in which the list_tools coroutine of server s returns
ListToolsReturns(s) == list_state[s] # "done" /\ list_state'[s] = "done"

MergesAdapter == pc = "discover" /\ GatherDone /\ merge_index' = merge_index + 1

\* C36: the declarations the merge loop adds for an adapter are those of the
\* catalog that the adapter's list_tools returned to this turn, whatever other
\* turns did to the adapter's cache in between.
C36_ContributionIsOfReturnedCatalog ==
    [][ MergesAdapter =>
          all_mcp_tools' =
              all_mcp_tools
                \o format_tools_for_gemini(tool_results[mcp_servers[merge_index]]) ]_vars

(***************************************************************************)
(* C37                                                                     *)
(***************************************************************************)
\* the call_tool invocations of iteration i: the dispatches that resolved a server
InvocationsOf(i) ==
    { j \in 1..Len(dispatch_log) :
        dispatch_log[j].iter = i /\ dispatch_log[j].server # NoServer }

\* the call_tool returns of iteration i
ReturnsOf(i) == { j \in 1..Len(tool_calls) : tool_calls[j].iter = i }

\* C37: the step that leaves the dispatch of a honoured function call invokes
\* call_tool on an adapter whose cached catalog holds the name when there is
\* one, and invokes nothing when there is none; and in every iteration at most
\* one call_tool invocation is made, the only call_tool return being that of
\* the invocation, on the adapter dispatch resolved.
C37_AtMostOneCallToolPerCall ==
    [][ /\ (pc = "dispatch" /\ pc' # "dispatch") =>
              IF Holders(function_call_requested.name) = {}
              THEN /\ pc' # "call_tool"
                   /\ tool_calls' = tool_calls
                   /\ target_server' = target_server
              ELSE /\ pc' = "call_tool"
                   /\ \E h \in Holders(function_call_requested.name) :
                         target_server' = mcp_servers[h]
        /\ \A i \in 1..Len(responses') :
              /\ Cardinality(InvocationsOf(i)') <= 1
              /\ Cardinality(ReturnsOf(i)') <= Cardinality(InvocationsOf(i)')
              /\ \A j \in ReturnsOf(i)' : \E d \in InvocationsOf(i)' :
                    /\ tool_calls'[j].server = dispatch_log'[d].server
                    /\ tool_calls'[j].name = dispatch_log'[d].name ]_vars

(***************************************************************************)
(* C38                                                                     *)
(***************************************************************************)
\* the entries the turn of message t added to the history it was started with
EntriesOfTurn(t) ==
    LET h == chat_task[t].updated_gemini_history
        n == Len(chat_task[t].initial_gemini_history)
    IN  IF chat_task[t].returned THEN { h[i].content : i \in (n + 1)..Len(h) } ELSE {}

\* the entries of the persisted internal history
PersistedEntries ==
    LET loaded == deserialize_history(history_cache.gemini_history_internal)
    IN  { loaded.history[i].content : i \in 1..Len(loaded.history) }

\* the persisted display history records message t and, after it, a response
DisplayRecords(t) ==
    LET d == history_cache.chat_history_display
    IN  \E i \in 1..Len(d) :
          /\ d[i] = DisplayItem("user", Prompts[t])
          /\ i < Len(d)
          /\ d[i + 1].type \in {"model", "error"}

\* the second message was accepted while the task of the first was running
AcceptedWhileRunning == 1 \in chat_task[2].overlapped

\* the task of message t has completed, having saved its turn (line 194)
Completed(t) == chat_task[t].pc = "done" /\ chat_task[t].saved

\* C38: when the second message was accepted while the first one's task was
\* running and both tasks have completed, the persisted internal history holds
\* the entries of both turns, and the persisted display history records both
\* messages, each with its response.
C38_ConcurrentTurnsBothPersisted ==
    (AcceptedWhileRunning /\ Completed(1) /\ Completed(2)) =>
        /\ deserialize_history(history_cache.gemini_history_internal).ok
        /\ \A t \in {1, 2} :
              /\ EntriesOfTurn(t) \subseteq PersistedEntries
              /\ DisplayRecords(t)

(***************************************************************************)
(* C39                                                                     *)
(***************************************************************************)
EmittedProcessing(t) ==
    \E i \in 1..Len(chat_task[t].events) : chat_task[t].events[i] = "Processing..."

\* the task has ended and the last event it emitted is the status "Idle"
EndedWithIdle(t) ==
    /\ chat_task[t].pc = "done"
    /\ Len(chat_task[t].events) > 0
    /\ chat_task[t].events[Len(chat_task[t].events)] = "Idle"

\* C39: a task that emitted the status "Processing..." eventually emits the
\* status "Idle", on every path, and a task that has ended emitted "Idle" last.
C39_ProcessingEventuallyIdle ==
    /\ [](\A t \in Tasks : chat_task[t].pc = "done" => EndedWithIdle(t))
    /\ \A t \in Tasks : EmittedProcessing(t) ~> EndedWithIdle(t)

(***************************************************************************)
(* C40                                                                     *)
(***************************************************************************)
\* the step is process_user_message handling message t, whose prompt is not empty
HandlesMessage(t) ==
    /\ chat_task[t].pc = "pending"
    /\ chat_task'[t].pc # "pending"
    /\ Len(chat_task'[t].handler_events) > 0
    /\ chat_task'[t].handler_events[1] = "user"

\* the client or the tool servers were not initialised
NotInitialized == ~gemini_client \/ mcp_servers = <<>>

\* no background task was scheduled for message t
NoTurnStarted(t) ==
    /\ chat_task[t].pc = "rejected"
    /\ chat_task[t].events = <<>>

====
